---- MODULE Spec2Model ----
(***************************************************************************)
(* A model of the supervisor of the model-serving cluster                  *)
(* (xinference/core/supervisor.py, class SupervisorActor): the worker      *)
(* registry, the replica registry, the two launch protocols with their     *)
(* rollback, termination, request routing (get_model, abort_request) and   *)
(* the health monitor (_check_dead_nodes).                                 *)
(*                                                                         *)
(* The supervisor's coroutines are cut at their awaits: one action runs a  *)
(* coroutine from the return of one await to the call of the next one, so  *)
(* the steps of different calls interleave exactly where the event loop    *)
(* can switch.  A worker RPC either returns or raises; the choice is made  *)
(* when the awaiting coroutine resumes.                                    *)
(*                                                                         *)
(* Strings that the code builds with "-" are sequences of tokens:          *)
(* "a-0" is <<"a", "0">>, "a-rank0" is <<"a", "rank0">>.                   *)
(* Python dicts that the code iterates are sequences of [k, v] records in  *)
(* insertion order.                                                        *)
(***************************************************************************)
EXTENDS Integers, Sequences, FiniteSets, TLC

VARIABLES
    worker_address_to_worker,     \* self._worker_address_to_worker: addresses, insertion order
    worker_status,                \* self._worker_status: records, insertion order
    replica_model_uid_to_worker,  \* self._replica_model_uid_to_worker: [k, v], insertion order
    model_uid_to_replica_info,    \* self._model_uid_to_replica_info: model uid -> ReplicaInfo
    block_tracker_mapping,        \* self._block_tracker_mapping: its keys
    collective_manager_mapping,   \* self._collective_manager_mapping: its keys
    instance_info,                \* the Status Guard's record: model uid -> status
    task,                         \* the coroutines of the supervisor's calls in progress
    ASYNC_LAUNCH_TASKS,           \* the module's ASYNC_LAUNCH_TASKS: model uid -> task
    monitor_alive,                \* the _check_dead_nodes coroutine still runs
    get_model_log,                \* history: per model uid, the get_model calls since its ReplicaInfo was installed
    last_call                     \* history: the call that returned in the step just taken

vars == <<worker_address_to_worker, worker_status, replica_model_uid_to_worker,
          model_uid_to_replica_info, block_tracker_mapping, collective_manager_mapping,
          instance_info, task, ASYNC_LAUNCH_TASKS, monitor_alive, get_model_log, last_call>>

-----------------------------------------------------------------------------
(* Bounds of the model and program constants *)

\* the largest replica count a launch asks for
MaxReplica == 2
\* the largest number of shards (n_worker) a sharded launch asks for
MaxNWorker == 2
\* the number of coroutine slots for the supervisor's calls in progress
MaxTasks == 2
\* the number of get_model calls counted per ReplicaInfo
MaxCalls == 12
\* the largest model count a worker answers to the placement selector
MaxCount == 2
\* the largest replica count of a launch in the routing specification
RouteReplica == 4

\* XINFERENCE_HEALTH_CHECK_FAILURE_THRESHOLD (T)
XINFERENCE_HEALTH_CHECK_FAILURE_THRESHOLD == 3
\* XINFERENCE_HEALTH_CHECK_TIMEOUT, in ticks of the model's clock
XINFERENCE_HEALTH_CHECK_TIMEOUT == 1

Workers == {"w1", "w2"}
ModelUids == {<<"a">>}
\* the model uids of the specification with two models
FrameUids == {<<"a">>, <<"b">>}
\* the model names of the launches that give no model uid
ModelNames == {<<"a">>}
\* gen_random_string(8) in coroutine slot t: the strings of two slots differ
RandomStrings == <<"r1", "r2", "r3", "r4">>
gen_random_string(t) == RandomStrings[t]
\* the model uids that a launch can give or generate
AllUids == ModelUids \cup FrameUids \cup ModelNames
              \cup {Append(n, RandomStrings[i]) : n \in ModelNames, i \in 1..Len(RandomStrings)}
Tasks == 1..MaxTasks
NoWorker == "none"

-----------------------------------------------------------------------------
(* Replica UIDs *)

DigitStr == <<"0", "1", "2", "3", "4", "5", "6", "7", "8", "9">>

\* str(i) for a replica index
IntToStr(i) == DigitStr[i + 1]

\* int(s) succeeds
IsIntStr(s) == \E i \in 1..Len(DigitStr) : DigitStr[i] = s

\* int(s)
StrToInt(s) == (CHOOSE i \in 1..Len(DigitStr) : DigitStr[i] = s) - 1

\* build_replica_model_uid(model_uid, rep_id): the model uid, "-", the replica index
build_replica_model_uid(model_uid, rep_id) == Append(model_uid, IntToStr(rep_id))

\* iter_replica_model_uid(model_uid, replica): the replica uids of indexes 0..replica-1
iter_replica_model_uid(model_uid, replica) ==
    [i \in 1..replica |-> build_replica_model_uid(model_uid, i - 1)]

\* parse_replica_model_uid(replica_model_uid): splits at the last "-"; the last
\* part must be a replica index, anything else raises
parse_replica_model_uid(replica_model_uid) ==
    LET n == Len(replica_model_uid)
    IN  IF n >= 2 /\ IsIntStr(replica_model_uid[n])
        THEN [ok |-> TRUE, model_uid |-> SubSeq(replica_model_uid, 1, n - 1),
              rep_id |-> StrToInt(replica_model_uid[n])]
        ELSE [ok |-> FALSE, model_uid |-> <<>>, rep_id |-> -1]

\* model_uid + "-rank0"
rank0_uid(model_uid) == Append(model_uid, "rank0")

-----------------------------------------------------------------------------
(* Python dicts kept in insertion order *)

DictKeys(d) == {d[i].k : i \in 1..Len(d)}
DictHas(d, key) == \E i \in 1..Len(d) : d[i].k = key
DictGet(d, key) == d[CHOOSE i \in 1..Len(d) : d[i].k = key].v
DictSet(d, key, val) ==
    IF DictHas(d, key)
    THEN [i \in 1..Len(d) |-> IF d[i].k = key THEN [k |-> key, v |-> val] ELSE d[i]]
    ELSE Append(d, [k |-> key, v |-> val])
DictPop(d, key) == SelectSeq(d, LAMBDA e : e.k # key)

SeqHas(s, x) == \E i \in 1..Len(s) : s[i] = x
SeqRemove(s, x) == SelectSeq(s, LAMBDA e : e # x)

\* a dict without one key, for the dicts the code never iterates
MapPop(f, key) == [x \in (DOMAIN f) \ {key} |-> f[x]]
MapSet(f, key, val) == [x \in (DOMAIN f) \cup {key} |-> IF x = key THEN val ELSE f[x]]

-----------------------------------------------------------------------------
(* The state of the supervisor *)

\* a value of _replica_model_uid_to_worker: one worker ref (replicated protocol,
\* rank 0) or a list of them (sharded protocol); isinstance(v, list) is is_list
OneRef(worker_ref) == [is_list |-> FALSE, refs |-> <<worker_ref>>]
RefList(worker_refs) == [is_list |-> TRUE, refs |-> worker_refs]

\* ReplicaInfo(replica=replica, scheduler=itertools.cycle(range(replica))):
\* scheduler is the index the cycle yields next, replica_to_worker_refs a
\* defaultdict(list) that holds the indexes touched so far
ReplicaInfo(replica) ==
    [replica |-> replica, scheduler |-> 0, replica_to_worker_refs |-> <<>>]

\* replica_to_worker_refs[i], which creates the empty list on first use
RefsOf(info, i) ==
    IF DictHas(info.replica_to_worker_refs, i) THEN DictGet(info.replica_to_worker_refs, i) ELSE <<>>

\* WorkerStatus(update_time=time.time(), failure_remaining_count=T, status=status);
\* age is time.time() - update_time, counted in ticks and saturating just above the
\* timeout; stale_run is history: the consecutive sweeps that found the status stale
WorkerStatus(address) ==
    [k |-> address, age |-> 0,
     failure_remaining_count |-> XINFERENCE_HEALTH_CHECK_FAILURE_THRESHOLD,
     stale_run |-> 0]

StatusAddresses == {worker_status[i].k : i \in 1..Len(worker_status)}
StatusOf(address) == worker_status[CHOOSE i \in 1..Len(worker_status) : worker_status[i].k = address]

NoCall == [op |-> "none", arg |-> <<>>, result |-> "none"]
Call(op, arg, result) == [op |-> op, arg |-> arg, result |-> result]

\* every replica of model_uid is bound in binds
AllBound(binds, model_uid, replica) ==
    \A i \in 0..(replica - 1) : DictHas(binds, build_replica_model_uid(model_uid, i))

-----------------------------------------------------------------------------
(* The worker registry *)

\* add_worker(worker_address) whose xo.actor_ref returns at once
AddWorker(worker_address) ==
    /\ IF SeqHas(worker_address_to_worker, worker_address)
       THEN /\ last_call' = Call("add_worker", <<worker_address>>, "AssertionError")
            /\ UNCHANGED worker_address_to_worker
       ELSE /\ worker_address_to_worker' = Append(worker_address_to_worker, worker_address)
            /\ last_call' = Call("add_worker", <<worker_address>>, "ok")
    /\ UNCHANGED <<worker_status, replica_model_uid_to_worker, model_uid_to_replica_info,
                   block_tracker_mapping, collective_manager_mapping, instance_info, task,
                   monitor_alive, get_model_log,
                   ASYNC_LAUNCH_TASKS>>

\* add_worker(worker_address) that goes on to xo.actor_ref for a registered address
AddWorkerCallUnchecked(t, worker_address) ==
    /\ task[t].kind = "idle"
    /\ \A u \in Tasks : u < t => task[u].kind # "idle"
    /\ task' = [task EXCEPT ![t].kind = "add_worker", ![t].worker_ref = worker_address,
                            ![t].pc = "actor_ref"]
    /\ last_call' = NoCall
    /\ UNCHANGED <<worker_address_to_worker, worker_status, replica_model_uid_to_worker,
                   model_uid_to_replica_info, block_tracker_mapping,
                   collective_manager_mapping, instance_info, monitor_alive, get_model_log,
                   ASYNC_LAUNCH_TASKS>>

\* add_worker(worker_address) up to its await: the assertion, then xo.actor_ref
AddWorkerCall(t, worker_address) ==
    /\ task[t].kind = "idle"
    /\ \A u \in Tasks : u < t => task[u].kind # "idle"
    /\ IF SeqHas(worker_address_to_worker, worker_address)
       THEN task' = [task EXCEPT ![t].kind = "add_worker", ![t].worker_ref = worker_address,
                                 ![t].pc = "done", ![t].result = "AssertionError"]
       ELSE task' = [task EXCEPT ![t].kind = "add_worker", ![t].worker_ref = worker_address,
                                 ![t].pc = "actor_ref"]
    /\ last_call' = NoCall
    /\ UNCHANGED <<worker_address_to_worker, worker_status, replica_model_uid_to_worker,
                   model_uid_to_replica_info, block_tracker_mapping,
                   collective_manager_mapping, instance_info, monitor_alive, get_model_log,
                   ASYNC_LAUNCH_TASKS>>

\* xo.actor_ref returned or raised: self._worker_address_to_worker[worker_address]
\* = worker_ref, which keeps the place of a key that is there already
ActorRef(t) ==
    /\ task[t].pc = "actor_ref"
    /\ \E ok \in BOOLEAN :
         IF ok
         THEN /\ worker_address_to_worker' =
                   IF SeqHas(worker_address_to_worker, task[t].worker_ref)
                   THEN worker_address_to_worker
                   ELSE Append(worker_address_to_worker, task[t].worker_ref)
              /\ task' = [task EXCEPT ![t].pc = "done", ![t].result = "ok"]
         ELSE /\ UNCHANGED worker_address_to_worker
              /\ task' = [task EXCEPT ![t].pc = "done", ![t].result = "actor_ref"]
    /\ last_call' = NoCall
    /\ UNCHANGED <<worker_status, replica_model_uid_to_worker, model_uid_to_replica_info,
                   block_tracker_mapping, collective_manager_mapping, instance_info,
                   monitor_alive, get_model_log,
                   ASYNC_LAUNCH_TASKS>>

\* report_worker_status(worker_address, status)
ReportedStatus(st, worker_address) ==
    IF ~DictHas(st, worker_address)
    THEN Append(st, WorkerStatus(worker_address))
    ELSE [i \in 1..Len(st) |->
            IF st[i].k = worker_address THEN [st[i] EXCEPT !.age = 0] ELSE st[i]]

ReportWorkerStatus(worker_address) ==
    /\ worker_status' = ReportedStatus(worker_status, worker_address)
    /\ worker_status' # worker_status
    /\ last_call' = Call("report_worker_status", <<worker_address>>, "ok")
    /\ UNCHANGED <<worker_address_to_worker, replica_model_uid_to_worker,
                   model_uid_to_replica_info, block_tracker_mapping,
                   collective_manager_mapping, instance_info, task, monitor_alive,
                   get_model_log,
                   ASYNC_LAUNCH_TASKS>>

\* report_worker_status(worker_address, status) up to its branch: the test
\* worker_address not in self._worker_status.  The call has no await; the thread
\* of the health monitor is what can run between this step and the next
ReportWorkerStatusTest(t, worker_address) ==
    /\ task[t].kind = "idle"
    /\ \A u \in Tasks : u < t => task[u].kind # "idle"
    /\ task' = [task EXCEPT ![t].kind = "report", ![t].worker_ref = worker_address,
                            ![t].pc = IF DictHas(worker_status, worker_address)
                                      THEN "report_known" ELSE "report_new"]
    /\ last_call' = NoCall
    /\ UNCHANGED <<worker_address_to_worker, worker_status, replica_model_uid_to_worker,
                   model_uid_to_replica_info, block_tracker_mapping,
                   collective_manager_mapping, instance_info, monitor_alive, get_model_log,
                   ASYNC_LAUNCH_TASKS>>

\* the branch of report_worker_status: the insert of a new WorkerStatus, or
\* worker_status = self._worker_status[worker_address] and the refresh, where the
\* subscript raises KeyError for a record that is gone
ReportWorkerStatusBranch(t) ==
    /\ task[t].pc \in {"report_known", "report_new"}
    /\ LET worker_address == task[t].worker_ref
       IN  IF task[t].pc = "report_known" /\ ~DictHas(worker_status, worker_address)
           THEN /\ task' = [task EXCEPT ![t].pc = "done", ![t].result = "KeyError"]
                /\ UNCHANGED worker_status
           ELSE /\ task' = [task EXCEPT ![t].pc = "done", ![t].result = "ok"]
                /\ worker_status' =
                     IF task[t].pc = "report_new"
                     THEN Append(SelectSeq(worker_status, LAMBDA s : s.k # worker_address),
                                 WorkerStatus(worker_address))
                     ELSE ReportedStatus(worker_status, worker_address)
    /\ last_call' = NoCall
    /\ UNCHANGED <<worker_address_to_worker, replica_model_uid_to_worker,
                   model_uid_to_replica_info, block_tracker_mapping,
                   collective_manager_mapping, instance_info, monitor_alive, get_model_log,
                   ASYNC_LAUNCH_TASKS>>

\* time passes: every status gets one tick older
Tick ==
    /\ \E i \in 1..Len(worker_status) : worker_status[i].age <= XINFERENCE_HEALTH_CHECK_TIMEOUT
    /\ worker_status' =
         [i \in 1..Len(worker_status) |->
            [worker_status[i] EXCEPT
               !.age = IF @ <= XINFERENCE_HEALTH_CHECK_TIMEOUT THEN @ + 1 ELSE @]]
    /\ last_call' = NoCall
    /\ UNCHANGED <<worker_address_to_worker, replica_model_uid_to_worker,
                   model_uid_to_replica_info, block_tracker_mapping,
                   collective_manager_mapping, instance_info, task, monitor_alive,
                   get_model_log,
                   ASYNC_LAUNCH_TASKS>>

\* the scan that takes every bound replica uid, whatever worker it is bound to
ModelsOnWorkerAny(binds, address) == [i \in 1..Len(binds) |-> binds[i].k]

\* the replica uids bound to the worker at address, in the order of the dict, once
\* per occurrence of the worker in the bound list
RECURSIVE ModelsOnWorker(_, _)
ModelsOnWorker(binds, address) ==
    IF binds = <<>> THEN <<>>
    ELSE LET e == Head(binds)
             hits == SelectSeq(e.v.refs, LAMBDA r : r = address)
         IN  [i \in 1..Len(hits) |-> e.k] \o ModelsOnWorker(Tail(binds), address)

\* for replica_model_uid in uids: parse it, pop the ReplicaInfo of its model and
\* pop its binding; a uid that does not parse raises and ends the loop
RECURSIVE PopReplicas(_, _, _)
PopReplicas(uids, binds, infos) ==
    IF uids = <<>> THEN [binds |-> binds, infos |-> infos, raised |-> FALSE]
    ELSE LET p == parse_replica_model_uid(Head(uids))
         IN  IF ~p.ok THEN [binds |-> binds, infos |-> infos, raised |-> TRUE]
             ELSE PopReplicas(Tail(uids), DictPop(binds, Head(uids)),
                              MapPop(infos, p.model_uid))

\* remove_worker(worker_address)
RemoveWorker(worker_address) ==
    LET r == PopReplicas(ModelsOnWorker(replica_model_uid_to_worker, worker_address),
                         replica_model_uid_to_worker, model_uid_to_replica_info)
    IN  /\ replica_model_uid_to_worker' = r.binds
        /\ model_uid_to_replica_info' = r.infos
        /\ IF r.raised
           THEN /\ last_call' = Call("remove_worker", <<worker_address>>, "ValueError")
                /\ UNCHANGED worker_address_to_worker
           ELSE /\ last_call' = Call("remove_worker", <<worker_address>>, "ok")
                /\ worker_address_to_worker' = SeqRemove(worker_address_to_worker, worker_address)
        /\ UNCHANGED <<worker_status, block_tracker_mapping, collective_manager_mapping,
                       instance_info, task, monitor_alive, get_model_log,
                   ASYNC_LAUNCH_TASKS>>

-----------------------------------------------------------------------------
(* The health monitor *)

\* time.time() - status.update_time > XINFERENCE_HEALTH_CHECK_TIMEOUT
IsStale(status) == status.age > XINFERENCE_HEALTH_CHECK_TIMEOUT

\* the countdown of one worker after a sweep has looked at its status
FailureRemainingAfterSweep(status) ==
    IF IsStale(status)
    THEN status.failure_remaining_count - 1
    ELSE XINFERENCE_HEALTH_CHECK_FAILURE_THRESHOLD

\* one pass of the loop over _worker_status.items(), from the i-th worker on
RECURSIVE SweepFrom(_, _, _, _, _)
SweepFrom(i, st, binds, infos, dead_nodes) ==
    IF i > Len(st)
    THEN [st |-> st, binds |-> binds, infos |-> infos, dead_nodes |-> dead_nodes,
          raised |-> FALSE]
    ELSE LET cnt == FailureRemainingAfterSweep(st[i])
             st2 == [st EXCEPT ![i] =
                        [@ EXCEPT !.failure_remaining_count = cnt,
                                  !.stale_run = IF IsStale(st[i]) THEN @ + 1 ELSE 0]]
         IN  IF cnt <= 0
             THEN LET r == PopReplicas(ModelsOnWorker(binds, st[i].k), binds, infos)
                  IN  IF r.raised
                      THEN [st |-> st2, binds |-> r.binds, infos |-> r.infos,
                            dead_nodes |-> dead_nodes, raised |-> TRUE]
                      ELSE SweepFrom(i + 1, st2, r.binds, r.infos,
                                     Append(dead_nodes, st[i].k))
             ELSE SweepFrom(i + 1, st2, binds, infos, dead_nodes)

\* one iteration of the while loop of _check_dead_nodes; an exception leaves the
\* try through finally and ends the coroutine
CheckDeadNodes ==
    /\ monitor_alive
    /\ LET r == SweepFrom(1, worker_status, replica_model_uid_to_worker,
                          model_uid_to_replica_info, <<>>)
       IN  /\ replica_model_uid_to_worker' = r.binds
           /\ model_uid_to_replica_info' = r.infos
           /\ IF r.raised
              THEN /\ monitor_alive' = FALSE
                   /\ worker_status' = r.st
                   /\ UNCHANGED worker_address_to_worker
              ELSE /\ UNCHANGED monitor_alive
                   /\ worker_status' = SelectSeq(r.st, LAMBDA s : ~SeqHas(r.dead_nodes, s.k))
                   /\ worker_address_to_worker' =
                        SelectSeq(worker_address_to_worker,
                                  LAMBDA a : ~SeqHas(r.dead_nodes, a))
           /\ last_call' = Call("_check_dead_nodes", <<>>,
                                IF r.raised THEN "ValueError" ELSE "ok")
    /\ UNCHANGED <<block_tracker_mapping, collective_manager_mapping, instance_info, task,
                   get_model_log,
                   ASYNC_LAUNCH_TASKS>>

-----------------------------------------------------------------------------
(* Request routing: get_model *)

\* a scheduler that yields its index without advancing
SchedulerNextStuck(info) == [value |-> info.scheduler, info |-> info]

\* next(replica_info.scheduler)
SchedulerNext(info) ==
    [value |-> info.scheduler,
     info |-> [info EXCEPT !.scheduler = (@ + 1) % info.replica]]

\* a routing that takes the last worker of a list
LastRef(v) == v.refs[Len(v.refs)]

\* the worker a bound value routes to: the first of a list
FirstRef(v) == v.refs[1]

\* The history of the get_model calls on one ReplicaInfo: calls counts them, last
\* is the index the latest one was routed to, visits counts the served calls per
\* index, ok says that all were served.  A call made while a replica of the model
\* was not bound ends the history (Tainted): it is kept only for calls that all
\* found every replica bound.
FreshLog == [calls |-> 0, last |-> -1, ok |-> TRUE, visits |-> <<>>]
Tainted == [calls |-> -1, last |-> -1, ok |-> FALSE, visits |-> <<>>]

VisitsOf(log, i) == IF DictHas(log.visits, i) THEN DictGet(log.visits, i) ELSE 0

Logged(log, idx, served, all_bound) ==
    IF log = Tainted \/ ~all_bound THEN Tainted
    ELSE [calls |-> log.calls + 1, last |-> idx, ok |-> log.ok /\ served,
          visits |-> IF served THEN DictSet(log.visits, idx, VisitsOf(log, idx) + 1)
                     ELSE log.visits]

\* get_model(model_uid)
GetModel(model_uid) ==
    /\ IF model_uid \notin DOMAIN model_uid_to_replica_info
       THEN /\ last_call' = Call("get_model", model_uid, "ValueError")
            /\ last_call' # last_call
            /\ UNCHANGED <<model_uid_to_replica_info, get_model_log,
                   ASYNC_LAUNCH_TASKS>>
       ELSE LET n == SchedulerNext(model_uid_to_replica_info[model_uid])
                replica_model_uid == build_replica_model_uid(model_uid, n.value)
                found == DictHas(replica_model_uid_to_worker, replica_model_uid)
            IN  /\ get_model_log[model_uid].calls < MaxCalls
                /\ model_uid_to_replica_info' =
                     [model_uid_to_replica_info EXCEPT ![model_uid] = n.info]
                /\ get_model_log' =
                     [get_model_log EXCEPT ![model_uid] =
                        Logged(@, n.value, found,
                               AllBound(replica_model_uid_to_worker, model_uid,
                                        model_uid_to_replica_info[model_uid].replica))]
                /\ last_call' = Call("get_model",
                                     IF found
                                     THEN <<FirstRef(DictGet(replica_model_uid_to_worker,
                                                             replica_model_uid))>>
                                          \o replica_model_uid
                                     ELSE model_uid,
                                     IF found THEN "ok" ELSE "ValueError")
    /\ UNCHANGED <<worker_address_to_worker, worker_status, replica_model_uid_to_worker,
                   block_tracker_mapping, collective_manager_mapping, instance_info, task,
                   monitor_alive,
                   ASYNC_LAUNCH_TASKS>>

\* describe_model(model_uid): always the replica of index 0, the scheduler is
\* not consulted
DescribeModel(model_uid) ==
    /\ LET replica_model_uid == build_replica_model_uid(model_uid, 0)
       IN  last_call' =
             IF model_uid \notin DOMAIN model_uid_to_replica_info
                \/ ~DictHas(replica_model_uid_to_worker, replica_model_uid)
             THEN Call("describe_model", model_uid, "ValueError")
             ELSE Call("describe_model",
                       <<FirstRef(DictGet(replica_model_uid_to_worker, replica_model_uid))>>
                       \o replica_model_uid, "ok")
    /\ UNCHANGED <<worker_address_to_worker, worker_status, replica_model_uid_to_worker,
                   model_uid_to_replica_info, block_tracker_mapping,
                   collective_manager_mapping, instance_info, task, monitor_alive,
                   get_model_log,
                   ASYNC_LAUNCH_TASKS>>

\* get_launch_builtin_model_progress(model_uid): 0.0 without a ReplicaInfo, else
\* the mean of the progress of the replica uids that the tracker knows
GetLaunchBuiltinModelProgress(model_uid) ==
    /\ last_call' =
         Call("get_launch_builtin_model_progress", model_uid,
              IF model_uid \notin DOMAIN model_uid_to_replica_info THEN "0.0" ELSE "mean")
    /\ UNCHANGED <<worker_address_to_worker, worker_status, replica_model_uid_to_worker,
                   model_uid_to_replica_info, block_tracker_mapping,
                   collective_manager_mapping, instance_info, task, monitor_alive,
                   get_model_log,
                   ASYNC_LAUNCH_TASKS>>

-----------------------------------------------------------------------------
(* Calls in progress *)

\* A coroutine of the supervisor: kind is the call, pc the await it is suspended
\* at, the other fields are its parameters and locals.  launched and terminated
\* are history: the <<worker, replica uid>> pairs whose launch RPC returned and
\* to which a terminate_model RPC was sent; loaded is the history of the pairs
\* whose wait_for_load returned; launch_calls is the history of the worker
\* launches that carried an xavier_config, registered that of the register_rank
\* calls; an address that a launch returns is the pair of the worker and the
\* replica uid; answers is the history of the tokens
\* an abort walk received; second marks a terminate that directly follows a
\* normal return of the same terminate, retry one that directly follows a
\* terminate of the same uid that a worker RPC failed; pin is the worker_ip the
\* caller passed, worker_ip the variable the registration search overwrites,
\* registrations the workers that advertised one; workers is the snapshot of the
\* registry a loop walks, ret what the workers answered to list_models.
IdleTask ==
    [kind |-> "idle", pc |-> "idle", model_uid |-> <<>>, replica |-> 0, n_worker |-> 0,
     enable_xavier |-> FALSE, suppress_exception |-> FALSE, caller |-> "client",
     idx |-> 0, i_worker |-> 0, worker_ref |-> NoWorker, worker_refs |-> <<>>,
     available_workers |-> <<>>, result |-> "none", error |-> "none",
     launched |-> {}, terminated |-> {}, answers |-> <<>>, second |-> FALSE,
     loaded |-> {}, world_size |-> 0, launch_calls |-> <<>>, shard_calls |-> <<>>,
     transfer_calls |-> <<>>, transfers_returned |-> FALSE,
     rank_addresses |-> <<>>,
     registered |-> <<>>, counts |-> [w \in Workers |-> 0],
     wait_ready |-> TRUE, detached |-> FALSE, destroy_errors |-> {},
     cancel_calls |-> {}, retry |-> FALSE, ret |-> {},
     pin |-> NoWorker, worker_ip |-> NoWorker, target_ip_worker_ref |-> NoWorker,
     workers |-> <<>>, registrations |-> {},
     model_name |-> <<>>]

\* the coroutine slot a new call takes
FreeSlot(t) ==
    /\ task[t].kind = "idle"
    /\ \A u \in Tasks : u < t => task[u].kind # "idle"

\* the supervisor state a coroutine step works on
Machine(tk) ==
    [tk |-> tk, binds |-> replica_model_uid_to_worker, infos |-> model_uid_to_replica_info,
     cm |-> collective_manager_mapping, bt |-> block_tracker_mapping]

\* the state after the step of coroutine t; a ReplicaInfo installed in the step
\* starts a new get_model history
Apply(t, m) ==
    /\ task' = [task EXCEPT ![t] = m.tk]
    /\ replica_model_uid_to_worker' = m.binds
    /\ model_uid_to_replica_info' = m.infos
    /\ collective_manager_mapping' = m.cm
    /\ block_tracker_mapping' = m.bt
    /\ get_model_log' =
         [u \in AllUids |->
            IF u \in DOMAIN m.infos /\ u \notin DOMAIN model_uid_to_replica_info
            THEN FreshLog ELSE get_model_log[u]]
    /\ last_call' = NoCall

\* the call returns result to its caller
Done(m, result) == [m EXCEPT !.tk.pc = "done", !.tk.result = result]

-----------------------------------------------------------------------------
(* terminate_model *)

\* the for loop over the replica uids from index r on, up to the next await:
\* an unbound replica raises in _terminate_one_model, which the loop swallows
\* when suppress_exception is set
RECURSIVE TermLoop(_, _, _, _, _)
TermLoop(binds, model_uid, replica, r, suppress_exception) ==
    IF r >= replica THEN [kind |-> "end", r |-> r]
    ELSE IF DictHas(binds, build_replica_model_uid(model_uid, r))
         THEN [kind |-> "rpc", r |-> r]
         ELSE IF suppress_exception
              THEN TermLoop(binds, model_uid, replica, r + 1, suppress_exception)
              ELSE [kind |-> "raise", r |-> r]

\* terminate_model returns normally: to the client, or into the except block of
\* the launch that called it
TermReturn(m) ==
    IF m.tk.caller = "rollback"
    THEN [m EXCEPT !.tk.pc = "update_instance_info"]
    ELSE Done(m, "ok")

\* terminate_model raises e: to the client, or out of the except block of the
\* launch that called it
TermRaise(m, e) == Done(m, e)

\* block_tracker_mapping.pop and destroy_actor
TermBlockTracker(m) ==
    IF m.tk.model_uid \in m.bt
    THEN [m EXCEPT !.bt = @ \ {m.tk.model_uid}, !.tk.pc = "destroy_block_tracker"]
    ELSE TermReturn(m)

\* collective_manager_mapping.pop and destroy_actor
TermCollectiveManager(m) ==
    IF m.tk.model_uid \in m.cm
    THEN [m EXCEPT !.cm = @ \ {m.tk.model_uid}, !.tk.pc = "destroy_collective_manager"]
    ELSE TermBlockTracker(m)

\* after the loop: pop the ReplicaInfo, then terminate the rank 0 replica if bound
TermAfterLoop(m) ==
    LET m2 == [m EXCEPT !.infos = MapPop(@, m.tk.model_uid)]
    IN  IF DictHas(m.binds, rank0_uid(m.tk.model_uid))
        THEN [m2 EXCEPT !.tk.pc = "terminate_rank0",
                        !.tk.worker_refs = DictGet(m.binds, rank0_uid(m.tk.model_uid)).refs,
                        !.tk.i_worker = 0]
        ELSE TermCollectiveManager(m2)

\* the loop from replica index r on
TermContinue(m, r) ==
    LET l == TermLoop(m.binds, m.tk.model_uid, m.tk.replica, r, m.tk.suppress_exception)
    IN  CASE l.kind = "rpc" ->
               [m EXCEPT !.tk.pc = "terminate_replica", !.tk.idx = l.r, !.tk.i_worker = 0,
                         !.tk.worker_refs =
                            DictGet(m.binds, build_replica_model_uid(m.tk.model_uid, l.r)).refs]
          [] l.kind = "raise" -> TermRaise(m, "ValueError")
          [] OTHER -> TermAfterLoop(m)

\* the start of terminate_model: a missing ReplicaInfo raises, whatever
\* suppress_exception says
TermBegin(m) ==
    IF m.tk.model_uid \notin DOMAIN m.infos
    THEN TermRaise(m, "ValueError")
    ELSE TermContinue([m EXCEPT !.tk.replica = m.infos[m.tk.model_uid].replica], 0)

\* terminate_model(model_uid, suppress_exception), called by a client
TerminateModel(t, model_uid, suppress_exception) ==
    /\ FreeSlot(t)
    /\ Apply(t, TermBegin(Machine(
         [IdleTask EXCEPT !.kind = "terminate", !.model_uid = model_uid,
                          !.suppress_exception = suppress_exception,
                          !.second = /\ suppress_exception
                                     /\ last_call = Call("terminate_suppress", model_uid, "ok"),
                          !.retry = /\ ~suppress_exception
                                    /\ last_call = Call("terminate", model_uid,
                                                         "terminate_model")])))
    /\ UNCHANGED <<worker_address_to_worker, worker_status, instance_info, monitor_alive,
                   ASYNC_LAUNCH_TASKS>>

\* _terminate_one_model after worker.terminate_model returned (ok) or raised
TermReplicaResumed(m, ok) ==
    LET tk == m.tk
        key == build_replica_model_uid(tk.model_uid, tk.idx)
        sent == [m EXCEPT !.tk.terminated = @ \cup {<<tk.worker_refs[tk.i_worker + 1], key>>}]
    IN  IF ok /\ tk.i_worker + 1 < Len(tk.worker_refs)
        THEN [sent EXCEPT !.tk.i_worker = @ + 1]
        ELSE IF ok /\ DictHas(m.binds, key)
             THEN TermContinue([sent EXCEPT !.binds = DictPop(@, key)], tk.idx + 1)
             ELSE IF tk.suppress_exception
                  THEN TermContinue(sent, tk.idx + 1)
                  ELSE TermRaise(sent, IF ok THEN "KeyError" ELSE "terminate_model")

\* the await of worker.terminate_model(replica uid) in the loop returns or raises
TerminateReplica(t) ==
    /\ task[t].pc = "terminate_replica"
    /\ \E ok \in BOOLEAN : Apply(t, TermReplicaResumed(Machine(task[t]), ok))
    /\ UNCHANGED <<worker_address_to_worker, worker_status, instance_info, monitor_alive,
                   ASYNC_LAUNCH_TASKS>>

\* _terminate_one_model(rank0_uid) after worker.terminate_model returned or raised:
\* this call is outside the try of the loop
TermRank0Resumed(m, ok) ==
    LET tk == m.tk
        key == rank0_uid(tk.model_uid)
        sent == [m EXCEPT !.tk.terminated = @ \cup {<<tk.worker_refs[1], key>>}]
    IN  IF ~ok THEN TermRaise(sent, "terminate_model")
        ELSE IF ~DictHas(m.binds, key) THEN TermRaise(sent, "KeyError")
        ELSE TermCollectiveManager([sent EXCEPT !.binds = DictPop(@, key)])

TerminateRank0(t) ==
    /\ task[t].pc = "terminate_rank0"
    /\ \E ok \in BOOLEAN : Apply(t, TermRank0Resumed(Machine(task[t]), ok))
    /\ UNCHANGED <<worker_address_to_worker, worker_status, instance_info, monitor_alive,
                   ASYNC_LAUNCH_TASKS>>

\* xo.destroy_actor(collective_manager_ref) whose exception ends terminate_model
DestroyCollectiveManagerRaises(t) ==
    /\ task[t].pc = "destroy_collective_manager"
    /\ \E ok \in BOOLEAN :
         Apply(t, IF ok THEN TermBlockTracker(Machine(task[t]))
                  ELSE TermRaise([Machine(task[t]) EXCEPT
                                    !.tk.destroy_errors = @ \cup {"collective_manager"}],
                                 "destroy_actor"))
    /\ UNCHANGED <<worker_address_to_worker, worker_status, instance_info, monitor_alive,
                   ASYNC_LAUNCH_TASKS>>

\* xo.destroy_actor(collective_manager_ref) returned or raised: the exception is
\* logged and swallowed
DestroyCollectiveManager(t) ==
    /\ task[t].pc = "destroy_collective_manager"
    /\ \E ok \in BOOLEAN :
         Apply(t, TermBlockTracker(
                    IF ok THEN Machine(task[t])
                    ELSE [Machine(task[t]) EXCEPT
                            !.tk.destroy_errors = @ \cup {"collective_manager"}]))
    /\ UNCHANGED <<worker_address_to_worker, worker_status, instance_info, monitor_alive,
                   ASYNC_LAUNCH_TASKS>>

\* xo.destroy_actor(block_tracker_ref) returned or raised: the exception is logged
\* and swallowed
DestroyBlockTracker(t) ==
    /\ task[t].pc = "destroy_block_tracker"
    /\ \E ok \in BOOLEAN :
         Apply(t, TermReturn(
                    IF ok THEN Machine(task[t])
                    ELSE [Machine(task[t]) EXCEPT
                            !.tk.destroy_errors = @ \cup {"block_tracker"}]))
    /\ UNCHANGED <<worker_address_to_worker, worker_status, instance_info, monitor_alive,
                   ASYNC_LAUNCH_TASKS>>

\* the caller takes the result of a finished call
Return(t) ==
    /\ task[t].pc = "done"
    /\ task' = [task EXCEPT ![t] = IdleTask]
    /\ IF task[t].detached
       THEN /\ ASYNC_LAUNCH_TASKS' = MapPop(ASYNC_LAUNCH_TASKS, task[t].model_uid)
            /\ last_call' = Call("callback_for_async_launch", task[t].model_uid,
                                 task[t].result)
       ELSE /\ UNCHANGED ASYNC_LAUNCH_TASKS
            /\ last_call' = Call(IF task[t].kind = "terminate"
                                    /\ task[t].suppress_exception
                                 THEN "terminate_suppress" ELSE task[t].kind,
                                 task[t].model_uid, task[t].result)
    /\ UNCHANGED <<worker_address_to_worker, worker_status, replica_model_uid_to_worker,
                   model_uid_to_replica_info, block_tracker_mapping,
                   collective_manager_mapping, instance_info, monitor_alive, get_model_log>>

-----------------------------------------------------------------------------
(* launch_builtin_model: the replicated protocol *)

\* except: await self.terminate_model(model_uid, suppress_exception=True), which
\* runs up to its first await in the same step
Rollback(m, e) ==
    TermBegin([m EXCEPT !.tk.error = e, !.tk.caller = "rollback",
                        !.tk.suppress_exception = TRUE])

\* the insert of the ReplicaInfo without the check for a model uid in use
ValidateAndInstallUnchecked(m) ==
    [m EXCEPT !.infos = MapSet(@, m.tk.model_uid, ReplicaInfo(m.tk.replica)),
              !.tk.pc = "set_instance_info"]

\* the checks before the insert, and the insert of the ReplicaInfo
ValidateAndInstall(m) ==
    IF m.tk.model_uid \in DOMAIN m.infos
    THEN Done(m, "ValueError")
    ELSE [m EXCEPT !.infos = MapSet(@, m.tk.model_uid, ReplicaInfo(m.tk.replica)),
                   !.tk.pc = "set_instance_info"]

\* the selection that also replaces the target on an equal model count
RECURSIVE ChooseFromLastMin(_, _, _, _, _)
ChooseFromLastMin(i, counts, available_workers, min_running_model_count, target_worker) ==
    IF i > Len(worker_address_to_worker) THEN target_worker
    ELSE LET worker_addr == worker_address_to_worker[i]
         IN  IF available_workers # <<>> /\ ~SeqHas(available_workers, worker_addr)
             THEN ChooseFromLastMin(i + 1, counts, available_workers,
                                    min_running_model_count, target_worker)
             ELSE IF min_running_model_count = -1
                     \/ counts[worker_addr] <= min_running_model_count
                  THEN ChooseFromLastMin(i + 1, counts, available_workers,
                                         counts[worker_addr], worker_addr)
                  ELSE ChooseFromLastMin(i + 1, counts, available_workers,
                                         min_running_model_count, target_worker)

\* _choose_worker(available_workers) over the workers from position i on, given
\* the model count each worker answers
RECURSIVE ChooseFrom(_, _, _, _, _)
ChooseFrom(i, counts, available_workers, min_running_model_count, target_worker) ==
    IF i > Len(worker_address_to_worker) THEN target_worker
    ELSE LET worker_addr == worker_address_to_worker[i]
         IN  IF available_workers # <<>> /\ ~SeqHas(available_workers, worker_addr)
             THEN ChooseFrom(i + 1, counts, available_workers, min_running_model_count,
                             target_worker)
             ELSE IF min_running_model_count = -1
                     \/ counts[worker_addr] < min_running_model_count
                  THEN ChooseFrom(i + 1, counts, available_workers, counts[worker_addr],
                                  worker_addr)
                  ELSE ChooseFrom(i + 1, counts, available_workers,
                                  min_running_model_count, target_worker)

_choose_worker(counts, available_workers) ==
    ChooseFrom(1, counts, available_workers, -1, NoWorker)

\* what the await of _choose_worker can give: a worker, RuntimeError when there is
\* no candidate, or the error of a worker's get_model_count
ChooseOutcomes(available_workers) ==
    LET chosen == {_choose_worker(c, available_workers) : c \in [Workers -> 0..1]}
    IN  IF chosen = {NoWorker} THEN {"RuntimeError"} ELSE chosen \cup {"get_model_count"}

\* the whitelists a caller passes to _choose_worker; the empty list stands for
\* None as well, the code tests the truth value of the list only
AvailableWorkerLists == {<<>>, <<"w1">>, <<"w2">>, <<"w1", "w2">>}

\* await self._choose_worker(available_workers) called on its own, as
\* get_devices_count does, where the workers answer the model counts in counts
ChooseWorkerCall(t, counts, available_workers) ==
    LET target_worker == _choose_worker(counts, available_workers)
        result == IF target_worker = NoWorker THEN "RuntimeError" ELSE target_worker
    IN  /\ FreeSlot(t)
        /\ task' = [task EXCEPT ![t] =
                      [IdleTask EXCEPT !.kind = "_choose_worker", !.pc = "done",
                                       !.counts = counts,
                                       !.available_workers = available_workers,
                                       !.result = result]]
        /\ last_call' = Call("_choose_worker", available_workers, result)
        /\ UNCHANGED <<worker_address_to_worker, worker_status,
                       replica_model_uid_to_worker, model_uid_to_replica_info,
                       block_tracker_mapping, collective_manager_mapping, instance_info,
                       monitor_alive, get_model_log,
                   ASYNC_LAUNCH_TASKS>>

\* _launch_one_model(worker_ref, replica uid, rank) up to its await
LaunchOneModel(m, replica_model_uid, rank) ==
    LET xavier_config == [uid |-> replica_model_uid, rank |-> rank,
                          world_size |-> m.tk.world_size]
    IN  IF DictHas(m.binds, replica_model_uid) THEN Rollback(m, "ValueError")
        ELSE IF m.tk.enable_xavier /\ m.tk.model_uid \notin m.bt THEN Rollback(m, "KeyError")
        ELSE IF m.tk.enable_xavier /\ rank = 0
             THEN [m EXCEPT !.tk.pc = "launch_rank0_model",
                            !.tk.launch_calls = Append(@, xavier_config)]
             ELSE IF m.tk.enable_xavier
                  THEN [m EXCEPT !.tk.pc = "launch_builtin_model",
                                 !.tk.launch_calls = Append(@, xavier_config)]
                  ELSE [m EXCEPT !.tk.pc = "launch_builtin_model"]

\* the start_transfer_for_vllm(rep_model_uid, rank_addresses) calls that the loop
\* over worker_refs makes, one per launched rank, before asyncio.gather awaits them
TransferCalls(rank_addresses) ==
    [j \in 1..Len(rank_addresses) |->
        [worker |-> rank_addresses[j][1], uid |-> rank_addresses[j][2],
         rank_addresses |-> rank_addresses]]

\* a _launch_model that goes on to register the ranks without the transfer calls
LaunchAfterLoopNoTransfer(m) ==
    IF ~m.tk.enable_xavier THEN Done(m, "ok")
    ELSE IF m.tk.model_uid \notin m.cm THEN Rollback(m, "KeyError")
    ELSE [m EXCEPT !.tk.pc = "register_rank", !.tk.i_worker = 0,
                   !.tk.registered =
                      Append(@, [idx |-> 0, addr |-> m.tk.rank_addresses[1]])]

\* after the for loop of _launch_model
LaunchAfterLoop(m) ==
    IF ~m.tk.enable_xavier THEN Done(m, "ok")
    ELSE IF m.tk.model_uid \notin m.cm THEN Rollback(m, "KeyError")
    ELSE [m EXCEPT !.tk.pc = "start_transfer_for_vllm",
                   !.tk.transfer_calls = TransferCalls(m.tk.rank_addresses)]

\* a loop body that leaves replica_to_worker_refs alone
AppendWorkerRefSkipped(info, i, worker_ref) == info

\* replica_to_worker_refs[_idx].append(worker_ref)
AppendWorkerRef(info, i, worker_ref) ==
    [info EXCEPT !.replica_to_worker_refs = DictSet(@, i, Append(RefsOf(info, i), worker_ref))]

\* the loop body that passes the replica index as the rank of the replica
LaunchChosenRankIdx(m, out) ==
    LET tk == m.tk
    IN  IF out \notin Workers THEN Rollback(m, out)
        ELSE IF tk.model_uid \notin DOMAIN m.infos THEN Rollback(m, "KeyError")
        ELSE LET m2 == [m EXCEPT !.tk.worker_ref = out,
                                 !.infos[tk.model_uid] = AppendWorkerRef(@, tk.idx, out)]
             IN  IF tk.enable_xavier /\ tk.idx = 0
                 THEN LaunchOneModel(m2, rank0_uid(tk.model_uid), 0)
                 ELSE LaunchOneModel(m2, build_replica_model_uid(tk.model_uid, tk.idx),
                                     tk.idx)

\* the loop body after _choose_worker gave outcome out
LaunchChosen(m, out) ==
    LET tk == m.tk
    IN  IF out \notin Workers THEN Rollback(m, out)
        ELSE IF tk.model_uid \notin DOMAIN m.infos THEN Rollback(m, "KeyError")
        ELSE LET m2 == [m EXCEPT !.tk.worker_ref = out,
                                 !.infos[tk.model_uid] = AppendWorkerRef(@, tk.idx, out)]
             IN  IF tk.enable_xavier /\ tk.idx = 0
                 THEN LaunchOneModel(m2, rank0_uid(tk.model_uid), 0)
                 ELSE LaunchOneModel(m2, build_replica_model_uid(tk.model_uid, tk.idx),
                                     tk.idx + 1)

\* the head of the for loop of _launch_model at replica index m.tk.idx: the
\* worker is target_ip_worker_ref when there is one, else _choose_worker is awaited
LaunchLoopHead(m) ==
    IF m.tk.idx >= m.tk.replica THEN LaunchAfterLoop(m)
    ELSE IF m.tk.target_ip_worker_ref # NoWorker
         THEN LaunchChosen(m, m.tk.target_ip_worker_ref)
         ELSE [m EXCEPT !.tk.pc = "choose_worker"]

\* launch_builtin_model(model_uid, replica, enable_xavier, n_worker=1) arrives
LaunchBuiltinModel(t, model_uid, replica, enable_xavier) ==
    /\ FreeSlot(t)
    /\ task' = [task EXCEPT ![t] =
                  [IdleTask EXCEPT !.kind = "launch", !.pc = "begin",
                                   !.model_uid = model_uid, !.replica = replica,
                                   !.n_worker = 1, !.enable_xavier = enable_xavier]]
    /\ last_call' = NoCall
    /\ UNCHANGED <<worker_address_to_worker, worker_status, replica_model_uid_to_worker,
                   model_uid_to_replica_info, block_tracker_mapping,
                   collective_manager_mapping, instance_info, monitor_alive, get_model_log,
                   ASYNC_LAUNCH_TASKS>>

\* _gen_model_uid(model_name) in coroutine slot t
_gen_model_uid(infos, model_name, t) ==
    IF model_name \notin DOMAIN infos THEN model_name
    ELSE Append(model_name, gen_random_string(t))

\* launch_builtin_model(model_uid=None, model_name, replica, enable_xavier) arrives,
\* while the random string of the slot is not in use
LaunchBuiltinModelByName(t, model_name, replica, enable_xavier) ==
    /\ FreeSlot(t)
    /\ Append(model_name, gen_random_string(t)) \notin DOMAIN model_uid_to_replica_info
    /\ task' = [task EXCEPT ![t] =
                  [IdleTask EXCEPT !.kind = "launch", !.pc = "begin",
                                   !.model_name = model_name, !.replica = replica,
                                   !.n_worker = 1, !.enable_xavier = enable_xavier]]
    /\ last_call' = NoCall
    /\ UNCHANGED <<worker_address_to_worker, worker_status, replica_model_uid_to_worker,
                   model_uid_to_replica_info, block_tracker_mapping,
                   collective_manager_mapping, instance_info, monitor_alive, get_model_log,
                   ASYNC_LAUNCH_TASKS>>

\* launch_builtin_model(model_uid, replica, wait_ready=False) arrives
LaunchBuiltinModelAsync(t, model_uid, replica) ==
    /\ FreeSlot(t)
    /\ task' = [task EXCEPT ![t] =
                  [IdleTask EXCEPT !.kind = "launch", !.pc = "begin",
                                   !.model_uid = model_uid, !.replica = replica,
                                   !.n_worker = 1, !.wait_ready = FALSE]]
    /\ last_call' = NoCall
    /\ UNCHANGED <<worker_address_to_worker, worker_status, replica_model_uid_to_worker,
                   model_uid_to_replica_info, block_tracker_mapping,
                   collective_manager_mapping, instance_info, monitor_alive, get_model_log,
                   ASYNC_LAUNCH_TASKS>>

\* launch_builtin_model from the uid generation on, up to the next await: the
\* collective actors are created first, else the checks and the insert follow
LaunchValidate(m0, t) ==
    LET model_uid == IF m0.tk.model_uid = <<>>
                     THEN _gen_model_uid(m0.infos, m0.tk.model_name, t)
                     ELSE m0.tk.model_uid
        m == [m0 EXCEPT !.tk.model_uid = model_uid]
    IN  IF m.tk.enable_xavier /\ m.tk.replica <= 1
        THEN ValidateAndInstall([m EXCEPT !.tk.enable_xavier = FALSE])
        ELSE IF m.tk.enable_xavier
             THEN [m EXCEPT !.tk.pc = "create_block_tracker"]
             ELSE ValidateAndInstall(m)

\* after the search of the workers' registrations: the collective actors are
\* created when enable_xavier and replica > 1, otherwise the checks and the insert
LaunchBegin(t) ==
    /\ task[t].pc = "begin" /\ task[t].kind = "launch"
    /\ Apply(t, LaunchValidate(Machine(task[t]), t))
    /\ UNCHANGED <<worker_address_to_worker, worker_status, instance_info, monitor_alive,
                   ASYNC_LAUNCH_TASKS>>

\* self.address, which no worker of a cluster shares
SupervisorAddress == "supervisor"

\* is_local_deployment(): the only worker lives at the supervisor's address
is_local_deployment(workers) == Len(workers) = 1 /\ workers[1] = SupervisorAddress

\* _get_worker_ref_by_ip(ip): the first registered worker whose address has the
\* ip; the ip of a worker stands for its address
_get_worker_ref_by_ip(workers, ip) == IF SeqHas(workers, ip) THEN ip ELSE NoWorker

\* after the search: target_ip_worker_ref is looked up from worker_ip, a worker_ip
\* outside the cluster is rejected, then the launch goes on to its checks
PinResolve(m, t) ==
    LET tk == m.tk
        target_ip_worker_ref ==
            IF tk.worker_ip # NoWorker
            THEN _get_worker_ref_by_ip(worker_address_to_worker, tk.worker_ip)
            ELSE NoWorker
    IN  IF /\ tk.worker_ip # NoWorker
           /\ ~is_local_deployment(worker_address_to_worker)
           /\ target_ip_worker_ref = NoWorker
        THEN Done(m, "ValueError")
        ELSE LaunchValidate([m EXCEPT !.tk.target_ip_worker_ref = target_ip_worker_ref,
                                      !.tk.i_worker = 0], t)

\* "search in worker first": the loop over the snapshot of the workers from
\* index i on, up to the next await of get_model_registration
SearchFrom(m, i, t) ==
    IF i >= Len(m.tk.workers) THEN PinResolve(m, t)
    ELSE [m EXCEPT !.tk.pc = "get_model_registration", !.tk.i_worker = i]

\* launch_builtin_model(model_uid, replica, worker_ip, n_worker=1) arrives;
\* worker_ip NoWorker stands for None
LaunchBuiltinModelPinned(t, model_uid, replica, worker_ip) ==
    /\ FreeSlot(t)
    /\ Apply(t, SearchFrom(
                  Machine([IdleTask EXCEPT
                             !.kind = "launch", !.model_uid = model_uid,
                             !.replica = replica, !.n_worker = 1,
                             !.pin = worker_ip, !.worker_ip = worker_ip,
                             !.workers = IF is_local_deployment(worker_address_to_worker)
                                         THEN <<>> ELSE worker_address_to_worker]),
                  0, t))
    /\ UNCHANGED <<worker_address_to_worker, worker_status, instance_info, monitor_alive,
                   ASYNC_LAUNCH_TASKS>>

\* worker.get_model_registration(model_type, model_name) returned None or a
\* registration, or raised: a registration overwrites worker_ip
RegistrationAnswered(m, res, t) ==
    LET worker == m.tk.workers[m.tk.i_worker + 1]
    IN  IF res = "RpcError" THEN Done(m, "get_model_registration")
        ELSE IF res = "None" THEN SearchFrom(m, m.tk.i_worker + 1, t)
        ELSE SearchFrom([m EXCEPT !.tk.worker_ip = worker,
                                  !.tk.registrations = @ \cup {worker}],
                        m.tk.i_worker + 1, t)

GetModelRegistration(t) ==
    /\ task[t].pc = "get_model_registration"
    /\ \E res \in {"None", "registration", "RpcError"} :
         Apply(t, RegistrationAnswered(Machine(task[t]), res, t))
    /\ UNCHANGED <<worker_address_to_worker, worker_status, instance_info, monitor_alive,
                   ASYNC_LAUNCH_TASKS>>

\* self._block_tracker_mapping[model_uid] = await xo.create_actor(VLLMBlockTracker)
CreateBlockTracker(t) ==
    /\ task[t].pc = "create_block_tracker"
    /\ Apply(t, [Machine(task[t]) EXCEPT !.bt = @ \cup {task[t].model_uid},
                                         !.tk.world_size = task[t].replica + 1,
                                         !.tk.pc = "create_collective_manager"])
    /\ UNCHANGED <<worker_address_to_worker, worker_status, instance_info, monitor_alive,
                   ASYNC_LAUNCH_TASKS>>

\* self._collective_manager_mapping[model_uid] = await xo.create_actor(CollectiveManager),
\* then the checks and the insert
CreateCollectiveManager(t) ==
    /\ task[t].pc = "create_collective_manager"
    /\ Apply(t, ValidateAndInstall(
                  [Machine(task[t]) EXCEPT !.cm = @ \cup {task[t].model_uid}]))
    /\ UNCHANGED <<worker_address_to_worker, worker_status, instance_info, monitor_alive,
                   ASYNC_LAUNCH_TASKS>>

\* wait_ready is false: task = asyncio.create_task(_launch_model()),
\* ASYNC_LAUNCH_TASKS[model_uid] = task, and the call returns model_uid
CreateTask(t) ==
    /\ ASYNC_LAUNCH_TASKS' = MapSet(ASYNC_LAUNCH_TASKS, task[t].model_uid, t)
    /\ task' = [task EXCEPT ![t].pc = "created", ![t].detached = TRUE]
    /\ last_call' = Call(task[t].kind, task[t].model_uid, "ok")
    /\ UNCHANGED <<replica_model_uid_to_worker, model_uid_to_replica_info,
                   block_tracker_mapping, collective_manager_mapping, get_model_log>>

\* await self._status_guard_ref.set_instance_info(model_uid, instance_info) returned:
\* status CREATING is published and _launch_model starts, awaited or as a task
SetInstanceInfo(t) ==
    /\ task[t].pc = "set_instance_info" /\ task[t].kind = "launch"
    /\ instance_info' = [instance_info EXCEPT ![task[t].model_uid] = "CREATING"]
    /\ IF task[t].wait_ready
       THEN /\ Apply(t, LaunchLoopHead([Machine(task[t]) EXCEPT !.tk.idx = 0]))
            /\ UNCHANGED ASYNC_LAUNCH_TASKS
       ELSE CreateTask(t)
    /\ UNCHANGED <<worker_address_to_worker, worker_status, monitor_alive>>

\* await self._choose_worker() returned or raised
ChooseWorker(t) ==
    /\ task[t].pc = "choose_worker"
    /\ \E out \in ChooseOutcomes(<<>>) : Apply(t, LaunchChosen(Machine(task[t]), out))
    /\ UNCHANGED <<worker_address_to_worker, worker_status, instance_info, monitor_alive,
                   ASYNC_LAUNCH_TASKS>>

\* _launch_one_model for rank 0 after worker.launch_rank0_model returned or raised
LaunchRank0Resumed(m, ok) ==
    LET tk == m.tk
        key == rank0_uid(tk.model_uid)
    IN  IF ~ok THEN Rollback(m, "launch_rank0_model")
        ELSE LaunchOneModel(
               [m EXCEPT !.binds = DictSet(@, key, OneRef(tk.worker_ref)),
                         !.tk.launched = @ \cup {<<tk.worker_ref, key>>},
                         !.tk.rank_addresses = Append(@, <<tk.worker_ref, key>>)],
               build_replica_model_uid(tk.model_uid, tk.idx), tk.idx + 1)

LaunchRank0Model(t) ==
    /\ task[t].pc = "launch_rank0_model"
    /\ \E ok \in BOOLEAN : Apply(t, LaunchRank0Resumed(Machine(task[t]), ok))
    /\ UNCHANGED <<worker_address_to_worker, worker_status, instance_info, monitor_alive,
                   ASYNC_LAUNCH_TASKS>>

\* _launch_one_model that binds the replica and returns without wait_for_load
LaunchResumedNoWait(m, ok) ==
    LET tk == m.tk
        key == build_replica_model_uid(tk.model_uid, tk.idx)
    IN  IF ~ok THEN Rollback(m, "launch_builtin_model")
        ELSE LaunchLoopHead([m EXCEPT !.binds = DictSet(@, key, OneRef(tk.worker_ref)),
                                      !.tk.launched = @ \cup {<<tk.worker_ref, key>>},
                                      !.tk.idx = @ + 1])

\* _launch_one_model after worker.launch_builtin_model returned or raised: the
\* replica is bound and wait_for_load is awaited
LaunchResumed(m, ok) ==
    LET tk == m.tk
        key == build_replica_model_uid(tk.model_uid, tk.idx)
    IN  IF ~ok THEN Rollback(m, "launch_builtin_model")
        ELSE [m EXCEPT !.binds = DictSet(@, key, OneRef(tk.worker_ref)),
                       !.tk.launched = @ \cup {<<tk.worker_ref, key>>},
                       !.tk.pc = "wait_for_load"]

WorkerLaunchBuiltinModel(t) ==
    /\ task[t].pc = "launch_builtin_model"
    /\ \E ok \in BOOLEAN : Apply(t, LaunchResumed(Machine(task[t]), ok))
    /\ UNCHANGED <<worker_address_to_worker, worker_status, instance_info, monitor_alive,
                   ASYNC_LAUNCH_TASKS>>

\* worker_ref.wait_for_load(replica uid) returned or raised
WaitResumed(m, ok) ==
    LET key == build_replica_model_uid(m.tk.model_uid, m.tk.idx)
    IN  IF ~ok THEN Rollback(m, "wait_for_load")
        ELSE LaunchLoopHead([m EXCEPT !.tk.idx = @ + 1,
                                      !.tk.loaded = @ \cup {<<m.tk.worker_ref, key>>},
                                      !.tk.rank_addresses =
                                         Append(@, <<m.tk.worker_ref, key>>)])

WaitForLoad(t) ==
    /\ task[t].pc = "wait_for_load"
    /\ \E ok \in BOOLEAN : Apply(t, WaitResumed(Machine(task[t]), ok))
    /\ UNCHANGED <<worker_address_to_worker, worker_status, instance_info, monitor_alive,
                   ASYNC_LAUNCH_TASKS>>

\* await collective_manager_ref.register_rank(idx, addr) for the idx-th rank
\* address, or the end of the loop over enumerate(rank_addresses)
RegisterFrom(m, idx) ==
    IF idx >= Len(m.tk.rank_addresses) THEN Done(m, "ok")
    ELSE [m EXCEPT !.tk.pc = "register_rank", !.tk.i_worker = idx,
                   !.tk.registered =
                      Append(@, [idx |-> idx, addr |-> m.tk.rank_addresses[idx + 1]])]

\* asyncio.gather of start_transfer_for_vllm on every rank returned or raised
StartTransfer(t) ==
    /\ task[t].pc = "start_transfer_for_vllm"
    /\ \E ok \in BOOLEAN :
         Apply(t, IF ok
                  THEN RegisterFrom([Machine(task[t]) EXCEPT !.tk.transfers_returned = TRUE],
                                    0)
                  ELSE Rollback(Machine(task[t]), "start_transfer_for_vllm"))
    /\ UNCHANGED <<worker_address_to_worker, worker_status, instance_info, monitor_alive,
                   ASYNC_LAUNCH_TASKS>>

\* collective_manager_ref.register_rank(idx, addr) returned or raised
RegisterRank(t) ==
    /\ task[t].pc = "register_rank"
    /\ \E ok \in BOOLEAN :
         Apply(t, IF ~ok THEN Rollback(Machine(task[t]), "register_rank")
                  ELSE RegisterFrom(Machine(task[t]), task[t].i_worker + 1))
    /\ UNCHANGED <<worker_address_to_worker, worker_status, instance_info, monitor_alive,
                   ASYNC_LAUNCH_TASKS>>

\* the except block after terminate_model returned: update_instance_info publishes
\* ERROR and the error of the launch is raised again
UpdateInstanceInfo(t) ==
    /\ task[t].pc = "update_instance_info"
    /\ instance_info' = [instance_info EXCEPT ![task[t].model_uid] = "ERROR"]
    /\ Apply(t, Done(Machine(task[t]), task[t].error))
    /\ UNCHANGED <<worker_address_to_worker, worker_status, monitor_alive,
                   ASYNC_LAUNCH_TASKS>>

-----------------------------------------------------------------------------
(* _launch_builtin_sharded_model: the sharded protocol *)

\* launch_builtin_model(model_uid, replica, n_worker > 1) arrives: all_workers is
\* read before the workers are asked for their registrations; no worker has one,
\* so all of them are available
LaunchShardedModel(t, model_uid, replica, n_worker) ==
    /\ FreeSlot(t)
    /\ task' = [task EXCEPT ![t] =
                  [IdleTask EXCEPT !.kind = "sharded", !.pc = "begin",
                                   !.model_uid = model_uid, !.replica = replica,
                                   !.n_worker = n_worker,
                                   !.available_workers = worker_address_to_worker]]
    /\ last_call' = NoCall
    /\ UNCHANGED <<worker_address_to_worker, worker_status, replica_model_uid_to_worker,
                   model_uid_to_replica_info, block_tracker_mapping,
                   collective_manager_mapping, instance_info, monitor_alive, get_model_log,
                   ASYNC_LAUNCH_TASKS>>

\* after asyncio.gather of the registrations: the checks and the insert
ShardedBegin(t) ==
    /\ task[t].pc = "begin" /\ task[t].kind = "sharded"
    /\ Apply(t, ValidateAndInstall(Machine(task[t])))
    /\ UNCHANGED <<worker_address_to_worker, worker_status, instance_info, monitor_alive,
                   ASYNC_LAUNCH_TASKS>>

\* the start of the sharded _launch_model: the n_worker check is outside the try
ShardedStart(m) ==
    IF m.tk.n_worker > Len(m.tk.available_workers)
    THEN Done(m, "ValueError")
    ELSE [m EXCEPT !.tk.idx = 0, !.tk.i_worker = 0, !.tk.worker_refs = <<>>,
                   !.tk.pc = "shard_choose_worker"]

\* set_instance_info returned: status CREATING is published and _launch_model starts
ShardedSetInstanceInfo(t) ==
    /\ task[t].pc = "set_instance_info" /\ task[t].kind = "sharded"
    /\ instance_info' = [instance_info EXCEPT ![task[t].model_uid] = "CREATING"]
    /\ IF task[t].wait_ready
       THEN /\ Apply(t, ShardedStart(Machine(task[t])))
            /\ UNCHANGED ASYNC_LAUNCH_TASKS
       ELSE CreateTask(t)
    /\ UNCHANGED <<worker_address_to_worker, worker_status, monitor_alive>>

\* the first step of the task that asyncio.create_task(_launch_model()) made
DetachedStart(t) ==
    /\ task[t].pc = "created"
    /\ Apply(t, IF task[t].kind = "launch"
                THEN LaunchLoopHead([Machine(task[t]) EXCEPT !.tk.idx = 0])
                ELSE ShardedStart(Machine(task[t])))
    /\ UNCHANGED <<worker_address_to_worker, worker_status, instance_info, monitor_alive,
                   ASYNC_LAUNCH_TASKS>>

\* the shard loop after _choose_worker(available_workers) gave outcome out: the
\* worker is recorded in replica_to_worker_refs[_idx], then its launch is awaited
ShardChosen(m, out) ==
    LET tk == m.tk
    IN  IF out \notin Workers THEN Rollback(m, out)
        ELSE IF tk.model_uid \notin DOMAIN m.infos THEN Rollback(m, "KeyError")
        ELSE [m EXCEPT !.tk.worker_ref = out,
                       !.infos[tk.model_uid] = AppendWorkerRef(@, tk.idx, out),
                       !.tk.shard_calls =
                          Append(@, [worker |-> out, shard |-> tk.i_worker,
                                     uid |-> build_replica_model_uid(tk.model_uid,
                                                                     tk.idx)]),
                       !.tk.pc = "shard_launch_builtin_model"]

ShardChooseWorker(t) ==
    /\ task[t].pc = "shard_choose_worker"
    /\ \E out \in ChooseOutcomes(task[t].available_workers) :
         Apply(t, ShardChosen(Machine(task[t]), out))
    /\ UNCHANGED <<worker_address_to_worker, worker_status, instance_info, monitor_alive,
                   ASYNC_LAUNCH_TASKS>>

\* worker_ref.launch_builtin_model(shard=i_worker) returned or raised; after the
\* last shard the replica uid is bound to the list of the shard workers
ShardLaunchResumed(m, ok) ==
    LET tk == m.tk
        key == build_replica_model_uid(tk.model_uid, tk.idx)
        refs == Append(tk.worker_refs, tk.worker_ref)
        m2 == [m EXCEPT !.tk.worker_refs = refs,
                        !.tk.launched = @ \cup {<<tk.worker_ref, key>>}]
    IN  IF ~ok THEN Rollback(m, "launch_builtin_model")
        ELSE IF tk.i_worker + 1 < tk.n_worker
             THEN [m2 EXCEPT !.tk.i_worker = @ + 1, !.tk.pc = "shard_choose_worker"]
             ELSE [m2 EXCEPT !.binds = DictSet(@, key, RefList(refs)),
                             !.tk.i_worker = 0, !.tk.pc = "shard_wait_for_load"]

ShardLaunchBuiltinModel(t) ==
    /\ task[t].pc = "shard_launch_builtin_model"
    /\ \E ok \in BOOLEAN : Apply(t, ShardLaunchResumed(Machine(task[t]), ok))
    /\ UNCHANGED <<worker_address_to_worker, worker_status, instance_info, monitor_alive,
                   ASYNC_LAUNCH_TASKS>>

\* wait_for_load on the shard workers, one after the other, returned or raised
ShardWaitResumed(m, ok) ==
    LET tk == m.tk
        key == build_replica_model_uid(tk.model_uid, tk.idx)
        m2 == [m EXCEPT !.tk.loaded = @ \cup {<<tk.worker_refs[tk.i_worker + 1], key>>}]
    IN  IF ~ok THEN Rollback(m, "wait_for_load")
        ELSE IF tk.i_worker + 1 < Len(tk.worker_refs)
             THEN [m2 EXCEPT !.tk.i_worker = @ + 1]
             ELSE IF tk.idx + 1 < tk.replica
                  THEN [m2 EXCEPT !.tk.idx = @ + 1, !.tk.i_worker = 0,
                                  !.tk.worker_refs = <<>>, !.tk.pc = "shard_choose_worker"]
                  ELSE Done(m2, "ok")

ShardWaitForLoad(t) ==
    /\ task[t].pc = "shard_wait_for_load"
    /\ \E ok \in BOOLEAN : Apply(t, ShardWaitResumed(Machine(task[t]), ok))
    /\ UNCHANGED <<worker_address_to_worker, worker_status, instance_info, monitor_alive,
                   ASYNC_LAUNCH_TASKS>>

-----------------------------------------------------------------------------
(* Request routing: abort_request *)

AbortTokens == {"DONE", "NOT_FOUND", "NO_OP"}

\* the for loop over the replica uids from index r on, up to the next await; an
\* unbound replica is skipped
RECURSIVE AbortContinue(_, _)
AbortContinue(m, r) ==
    IF r >= m.tk.replica THEN Done(m, m.tk.result)
    ELSE LET key == build_replica_model_uid(m.tk.model_uid, r)
         IN  IF ~DictHas(m.binds, key) THEN AbortContinue(m, r + 1)
             ELSE [m EXCEPT !.tk.idx = r, !.tk.pc = "abort_request",
                            !.tk.worker_ref = FirstRef(DictGet(m.binds, key))]

\* abort_request(model_uid, request_id) arrives; res = {"msg": NO_OP}
AbortRequest(t, model_uid) ==
    /\ FreeSlot(t)
    /\ LET m == Machine([IdleTask EXCEPT !.kind = "abort", !.model_uid = model_uid,
                                         !.result = "NO_OP"])
       IN  IF model_uid \notin DOMAIN model_uid_to_replica_info
           THEN Apply(t, Done(m, "NO_OP"))
           ELSE Apply(t, AbortContinue(
                  [m EXCEPT !.tk.replica = model_uid_to_replica_info[model_uid].replica], 0))
    /\ UNCHANGED <<worker_address_to_worker, worker_status, instance_info, monitor_alive,
                   ASYNC_LAUNCH_TASKS>>

\* the answer of one replica: res["msg"] = result_info, DONE ends the walk; an
\* error of worker_ref.get_model or model_ref.abort_request leaves abort_request
AbortAnswered(m, answer) ==
    IF answer \notin AbortTokens THEN Done(m, answer)
    ELSE LET m2 == [m EXCEPT !.tk.result = answer, !.tk.answers = Append(@, answer)]
         IN  IF answer = "DONE" THEN Done(m2, answer)
             ELSE AbortContinue(m2, m.tk.idx + 1)

AbortReplica(t) ==
    /\ task[t].pc = "abort_request"
    /\ \E answer \in AbortTokens \cup {"RpcError"} :
         Apply(t, AbortAnswered(Machine(task[t]), answer))
    /\ UNCHANGED <<worker_address_to_worker, worker_status, instance_info, monitor_alive,
                   ASYNC_LAUNCH_TASKS>>

-----------------------------------------------------------------------------
(* cancel_launch_builtin_model *)

\* reading replica_to_worker_refs[i] for every replica index from i on: the
\* defaultdict creates the empty list of an index that was never touched
RECURSIVE TouchSlots(_, _)
TouchSlots(info, i) ==
    IF i >= info.replica THEN info
    ELSE TouchSlots([info EXCEPT !.replica_to_worker_refs = DictSet(@, i, RefsOf(info, i))],
                    i + 1)

\* coros: worker_ref.cancel_launch_model(rep_model_uid) for every worker of every
\* replica_to_worker_refs[i]
CancelCoros(info, model_uid) ==
    UNION {{<<RefsOf(info, i)[j], build_replica_model_uid(model_uid, i)>> :
              j \in 1..Len(RefsOf(info, i))} : i \in 0..(info.replica - 1)}

\* what asyncio.gather(*coros) can give: without coros nothing can raise; a worker
\* can raise RuntimeError or another error
GatherOutcomes(coros) ==
    IF coros = {} THEN {"ok"} ELSE {"ok", "RuntimeError", "RpcError"}

\* cancel_launch_builtin_model(model_uid) arrives: RuntimeError when the uid has
\* no ReplicaInfo, else the coros are made and gathered
CancelLaunchBuiltinModel(t, model_uid) ==
    /\ FreeSlot(t)
    /\ LET m == Machine([IdleTask EXCEPT !.kind = "cancel", !.model_uid = model_uid])
       IN  IF model_uid \notin DOMAIN model_uid_to_replica_info
           THEN Apply(t, Done(m, "RuntimeError"))
           ELSE LET info == model_uid_to_replica_info[model_uid]
                IN  Apply(t, [m EXCEPT !.infos[model_uid] = TouchSlots(info, 0),
                                       !.tk.replica = info.replica,
                                       !.tk.cancel_calls = CancelCoros(info, model_uid),
                                       !.tk.pc = "cancel_launch_model"])
    /\ UNCHANGED <<worker_address_to_worker, worker_status, instance_info, monitor_alive,
                   ASYNC_LAUNCH_TASKS>>

\* asyncio.gather returned or raised: only RuntimeError is caught, then the
\* ReplicaInfo is popped
CancelGathered(m, out) ==
    IF out \in {"ok", "RuntimeError"}
    THEN Done([m EXCEPT !.infos = MapPop(@, m.tk.model_uid)], "ok")
    ELSE Done(m, out)

CancelLaunchModel(t) ==
    /\ task[t].pc = "cancel_launch_model"
    /\ \E out \in GatherOutcomes(task[t].cancel_calls) :
         Apply(t, CancelGathered(Machine(task[t]), out))
    /\ UNCHANGED <<worker_address_to_worker, worker_status, instance_info, monitor_alive,
                   ASYNC_LAUNCH_TASKS>>

-----------------------------------------------------------------------------
(* list_models *)

\* worker.list_models(): the replica uids that run on the worker, which are the
\* ones the supervisor has bound to it
RunningOn(binds, worker) ==
    {binds[i].k : i \in {j \in 1..Len(binds) : SeqHas(binds[j].v.refs, worker)}}

\* after the loop over the workers: the replica uids are re-keyed to model uids
\* and the replica count of each is read from its ReplicaInfo
ListFinish(m) ==
    IF \E k \in m.tk.ret : ~parse_replica_model_uid(k).ok THEN Done(m, "ValueError")
    ELSE IF \E k \in m.tk.ret : parse_replica_model_uid(k).model_uid \notin DOMAIN m.infos
         THEN Done(m, "KeyError")
         ELSE Done(m, "ok")

\* the loop over the snapshot of the workers from index i on, up to the next await
ListFrom(m, i) ==
    IF i >= Len(m.tk.workers) THEN ListFinish(m)
    ELSE [m EXCEPT !.tk.pc = "list_models", !.tk.i_worker = i]

\* list_models() arrives: workers is the snapshot of the registered workers
ListModels(t) ==
    /\ FreeSlot(t)
    /\ Apply(t, ListFrom(Machine([IdleTask EXCEPT !.kind = "list_models",
                                                  !.workers = worker_address_to_worker]),
                         0))
    /\ UNCHANGED <<worker_address_to_worker, worker_status, instance_info, monitor_alive,
                   ASYNC_LAUNCH_TASKS>>

\* ret.update(await worker.list_models()): the worker answered or the call raised
ListAnswered(m, ok) ==
    IF ~ok THEN Done(m, "list_models")
    ELSE ListFrom([m EXCEPT !.tk.ret =
                      @ \cup RunningOn(m.binds, m.tk.workers[m.tk.i_worker + 1])],
                  m.tk.i_worker + 1)

WorkerListModels(t) ==
    /\ task[t].pc = "list_models"
    /\ \E ok \in BOOLEAN : Apply(t, ListAnswered(Machine(task[t]), ok))
    /\ UNCHANGED <<worker_address_to_worker, worker_status, instance_info, monitor_alive,
                   ASYNC_LAUNCH_TASKS>>

-----------------------------------------------------------------------------
(* The specifications *)

Init ==
    /\ worker_address_to_worker = <<>>
    /\ worker_status = <<>>
    /\ replica_model_uid_to_worker = <<>>
    /\ model_uid_to_replica_info = <<>>
    /\ block_tracker_mapping = {}
    /\ collective_manager_mapping = {}
    /\ instance_info = [u \in AllUids |-> "NONE"]
    /\ task = [t \in Tasks |-> IdleTask]
    /\ ASYNC_LAUNCH_TASKS = <<>>
    /\ monitor_alive = TRUE
    /\ get_model_log = [u \in AllUids |-> FreshLog]
    /\ last_call = NoCall

\* the steps of a launch in the replicated protocol, with its rollback
LaunchStep(t) ==
    \/ LaunchBegin(t)
    \/ SetInstanceInfo(t)
    \/ ChooseWorker(t)
    \/ WorkerLaunchBuiltinModel(t)
    \/ WaitForLoad(t)
    \/ UpdateInstanceInfo(t)

\* the steps that only a collective launch and its termination take
CollectiveStep(t) ==
    \/ CreateBlockTracker(t)
    \/ CreateCollectiveManager(t)
    \/ LaunchRank0Model(t)
    \/ StartTransfer(t)
    \/ RegisterRank(t)
    \/ TerminateRank0(t)
    \/ DestroyCollectiveManager(t)
    \/ DestroyBlockTracker(t)

\* the steps of a launch in the sharded protocol
ShardedStep(t) ==
    \/ ShardedBegin(t)
    \/ ShardedSetInstanceInfo(t)
    \/ ShardChooseWorker(t)
    \/ ShardLaunchBuiltinModel(t)
    \/ ShardWaitForLoad(t)

\* Registry: add_worker and remove_worker calls on two coroutine slots, with the
\* placement selector applied to the registry in between.
NextRegistry ==
    \/ \E t \in Tasks, w \in Workers : AddWorkerCall(t, w)
    \/ \E t \in Tasks : ActorRef(t)
    \/ \E w \in Workers : RemoveWorker(w)
    \/ \E t \in Tasks, c \in [Workers -> 0..MaxCount], a \in AvailableWorkerLists :
         ChooseWorkerCall(t, c, a)
    \/ \E t \in Tasks : Return(t)

SpecRegistry == Init /\ [][NextRegistry]_vars

\* The monitor thread: report_worker_status calls of the event loop, one at a
\* time, and the sweeps of the health monitor, which runs in a thread of its own
\* and so can run in the middle of a call.
NextThread ==
    \/ \E w \in Workers : AddWorker(w)
    \/ \E w \in Workers : ReportWorkerStatusTest(1, w)
    \/ ReportWorkerStatusBranch(1)
    \/ Tick
    \/ CheckDeadNodes
    \/ Return(1)

SpecThread == Init /\ [][NextThread]_vars

\* the workers of the routing specification
RouteWorkers == {"w1"}

\* Detached launches: launches with wait_ready false on two coroutine slots, each
\* going on as a task after its call has returned.
NextAsync ==
    \/ \E w \in RouteWorkers : AddWorker(w)
    \/ \E t \in Tasks, u \in ModelUids, n \in 1..MaxReplica :
         LaunchBuiltinModelAsync(t, u, n)
    \/ \E t \in Tasks : DetachedStart(t)
    \/ \E t \in Tasks : LaunchStep(t)
    \/ \E t \in Tasks : TerminateReplica(t)
    \/ \E t \in Tasks : Return(t)

SpecAsync == Init /\ [][NextAsync]_vars

\* Uid allocation: launches with and without a model uid on two coroutine slots,
\* with or without the collective actors, before any worker has registered: a launch
\* that gets as far as _choose_worker is rolled back there.
NextUid ==
    \/ \E t \in Tasks, u \in ModelUids, k \in 1..MaxReplica, x \in BOOLEAN :
         LaunchBuiltinModel(t, u, k, x)
    \/ \E t \in Tasks, n \in ModelNames, k \in 1..MaxReplica, x \in BOOLEAN :
         LaunchBuiltinModelByName(t, n, k, x)
    \/ \E t \in Tasks : LaunchBegin(t)
    \/ \E t \in Tasks : CreateBlockTracker(t)
    \/ \E t \in Tasks : CreateCollectiveManager(t)
    \/ \E t \in Tasks : SetInstanceInfo(t)
    \/ \E t \in Tasks : ChooseWorker(t)
    \/ \E t \in Tasks : DestroyCollectiveManager(t)
    \/ \E t \in Tasks : DestroyBlockTracker(t)
    \/ \E t \in Tasks : UpdateInstanceInfo(t)
    \/ \E t \in Tasks : Return(t)

SpecUid == Init /\ [][NextUid]_vars

\* Routing: one call at a time launches replicas, terminates or aborts, while
\* get_model calls and worker removals come in between its steps.
NextRoute ==
    \/ \E w \in RouteWorkers : AddWorker(w)
    \/ \E w \in RouteWorkers : RemoveWorker(w)
    \/ \E u \in ModelUids : GetModel(u)
    \/ \E u \in ModelUids : DescribeModel(u)
    \/ \E u \in ModelUids : GetLaunchBuiltinModelProgress(u)
    \/ \E u \in ModelUids, n \in 1..RouteReplica : LaunchBuiltinModel(1, u, n, FALSE)
    \/ \E u \in ModelUids, x \in BOOLEAN : TerminateModel(1, u, x)
    \/ \E u \in ModelUids : AbortRequest(1, u)
    \/ LaunchStep(1)
    \/ TerminateReplica(1)
    \/ AbortReplica(1)
    \/ Return(1)

SpecRoute == Init /\ [][NextRoute]_vars

\* Lifecycle: one call at a time launches in either protocol, with or without the
\* collective actors, or terminates; every worker RPC can raise.
Next ==
    \/ \E w \in Workers : AddWorker(w)
    \/ \E u \in ModelUids, n \in 1..MaxReplica, x \in BOOLEAN : LaunchBuiltinModel(1, u, n, x)
    \/ \E u \in ModelUids, n \in 1..MaxReplica, k \in 2..MaxNWorker :
         LaunchShardedModel(1, u, n, k)
    \/ \E u \in ModelUids, x \in BOOLEAN : TerminateModel(1, u, x)
    \/ LaunchStep(1)
    \/ CollectiveStep(1)
    \/ ShardedStep(1)
    \/ TerminateReplica(1)
    \/ Return(1)

Spec == Init /\ [][Next]_vars

\* Cancellation: one launch at a time, and cancel_launch_builtin_model calls that
\* arrive before, during and after it.
NextCancel ==
    \/ \E w \in RouteWorkers : AddWorker(w)
    \/ \E u \in ModelUids, n \in 1..MaxReplica : LaunchBuiltinModel(1, u, n, FALSE)
    \/ LaunchStep(1)
    \/ TerminateReplica(1)
    \/ \E t \in Tasks, u \in ModelUids : CancelLaunchBuiltinModel(t, u)
    \/ \E t \in Tasks : CancelLaunchModel(t)
    \/ \E t \in Tasks : Return(t)

SpecCancel == Init /\ [][NextCancel]_vars

\* Detached launches: a launch with wait_ready false runs as a task while
\* cancel_launch_builtin_model calls arrive.
NextDetached ==
    \/ \E w \in RouteWorkers : AddWorker(w)
    \/ \E u \in ModelUids, n \in 1..MaxReplica : LaunchBuiltinModelAsync(1, u, n)
    \/ DetachedStart(1)
    \/ LaunchStep(1)
    \/ TerminateReplica(1)
    \/ \E t \in Tasks, u \in ModelUids : CancelLaunchBuiltinModel(t, u)
    \/ \E t \in Tasks : CancelLaunchModel(t)
    \/ \E t \in Tasks : Return(t)

SpecDetached == Init /\ [][NextDetached]_vars

\* Pinned placement: one replicated launch at a time that may name a worker_ip,
\* while the workers of the cluster answer the registration search.
NextPin ==
    \/ \E w \in Workers : AddWorker(w)
    \/ \E u \in ModelUids, n \in 1..MaxReplica, ip \in Workers \cup {NoWorker} :
         LaunchBuiltinModelPinned(1, u, n, ip)
    \/ GetModelRegistration(1)
    \/ SetInstanceInfo(1)
    \/ ChooseWorker(1)
    \/ WorkerLaunchBuiltinModel(1)
    \/ WaitForLoad(1)
    \/ UpdateInstanceInfo(1)
    \/ TerminateReplica(1)
    \/ Return(1)

SpecPin == Init /\ [][NextPin]_vars

\* Liveness of the health monitor: workers register and report, time passes and
\* the monitor sweeps; the clock and the sweep loop of _check_dead_nodes, which
\* sleeps and runs again for ever, are scheduled fairly.
NextLive ==
    \/ \E w \in Workers : AddWorker(w)
    \/ \E w \in Workers : ReportWorkerStatus(w)
    \/ Tick
    \/ CheckDeadNodes

SpecLive == Init /\ [][NextLive]_vars /\ WF_vars(Tick) /\ WF_vars(CheckDeadNodes)

\* Sharded routing: one call at a time launches sharded replicas while get_model,
\* describe_model and abort_request calls are routed.
NextShard ==
    \/ \E w \in Workers : AddWorker(w)
    \/ \E u \in ModelUids, n \in 1..MaxReplica, k \in 2..MaxNWorker :
         LaunchShardedModel(1, u, n, k)
    \/ ShardedStep(1)
    \/ \E u \in ModelUids : GetModel(u)
    \/ \E u \in ModelUids : DescribeModel(u)
    \/ \E u \in ModelUids : AbortRequest(2, u)
    \/ AbortReplica(2)
    \/ \E t \in Tasks : Return(t)

SpecShard == Init /\ [][NextShard]_vars

\* the workers that report their status and that are removed
HealthWorkers == {"w1"}

\* Health: workers register, report their status and fall silent, the monitor
\* sweeps and workers are removed, while one call at a time launches replicas
\* with or without the collective actors.
NextHealth ==
    \/ \E w \in Workers : AddWorker(w)
    \/ \E w \in HealthWorkers : ReportWorkerStatus(w)
    \/ \E w \in HealthWorkers : RemoveWorker(w)
    \/ Tick
    \/ CheckDeadNodes
    \/ \E u \in ModelUids, n \in 1..MaxReplica, x \in BOOLEAN : LaunchBuiltinModel(1, u, n, x)
    \/ LaunchStep(1)
    \/ CollectiveStep(1)
    \/ TerminateReplica(1)
    \/ Return(1)

SpecHealth == Init /\ [][NextHealth]_vars

\* Listing: list_models calls while one replicated launch at a time runs and a
\* worker is removed.
NextList ==
    \/ \E w \in Workers : AddWorker(w)
    \/ \E w \in HealthWorkers : RemoveWorker(w)
    \/ \E u \in ModelUids, n \in 1..MaxReplica : LaunchBuiltinModel(1, u, n, FALSE)
    \/ LaunchStep(1)
    \/ TerminateReplica(1)
    \/ \E t \in Tasks : ListModels(t)
    \/ \E t \in Tasks : WorkerListModels(t)
    \/ \E t \in Tasks : Return(t)

SpecList == Init /\ [][NextList]_vars

\* Two models: launches of one replica under two model uids, one at a time, while
\* a worker is removed or falls silent and is evicted by the health monitor.
NextFrame ==
    \/ \E w \in Workers : AddWorker(w)
    \/ \E w \in HealthWorkers : ReportWorkerStatus(w)
    \/ \E w \in HealthWorkers : RemoveWorker(w)
    \/ Tick
    \/ CheckDeadNodes
    \/ \E u \in FrameUids : LaunchBuiltinModel(1, u, 1, FALSE)
    \/ LaunchStep(1)
    \/ TerminateReplica(1)
    \/ Return(1)

SpecFrame == Init /\ [][NextFrame]_vars


-----------------------------------------------------------------------------
(* Round-robin routing *)

\* the number of the calls 1..calls that a cycle over replica indexes routes to i
CycleVisits(calls, replica, i) == Cardinality({k \in 1..calls : (k - 1) % replica = i})

\* C1: for a model with N replicas installed, as long as every get_model call on
\* it found all N replicas bound, the k-th call is served and routed to index
\* (k-1) mod N: the calls go 0,1,...,N-1 and wrap around, so that every index i
\* has been visited as often as i occurs among the first k terms of that cycle
\* (N=4, 12 calls: 3 visits each).
C1_RoundRobin ==
    \A u \in ModelUids :
        (u \in DOMAIN model_uid_to_replica_info
         /\ get_model_log[u] # Tainted /\ get_model_log[u].calls > 0) =>
            LET log == get_model_log[u]
                N == model_uid_to_replica_info[u].replica
            IN  /\ log.ok
                /\ log.last = (log.calls - 1) % N
                /\ model_uid_to_replica_info[u].scheduler = log.calls % N
                /\ \A i \in 0..(N - 1) : VisitsOf(log, i) = CycleVisits(log.calls, N, i)

\* 12 get_model calls on a model with 4 bound replicas, 3 visits to each index
C1_Witness ==
    \E u \in ModelUids :
        /\ u \in DOMAIN model_uid_to_replica_info
        /\ model_uid_to_replica_info[u].replica = 4
        /\ AllBound(replica_model_uid_to_worker, u, 4)
        /\ get_model_log[u].calls = 12
        /\ \A i \in 0..3 : VisitsOf(get_model_log[u], i) = 3

-----------------------------------------------------------------------------
(* abort_request *)

\* the last token different from NO_OP among the answers, NO_OP if there is none
RECURSIVE LastSignificant(_)
LastSignificant(answers) ==
    IF answers = <<>> THEN "NO_OP"
    ELSE IF answers[Len(answers)] # "NO_OP" THEN answers[Len(answers)]
         ELSE LastSignificant(SubSeq(answers, 1, Len(answers) - 1))

\* C8: an abort_request that returns a token has stopped at the first DONE answer
\* (no answer before the last one is DONE), returns DONE if a replica answered
\* DONE, and otherwise the last answer different from NO_OP, NO_OP when there is
\* none (NOT_FOUND then NO_OP gives NOT_FOUND; an unknown uid gives NO_OP).
C8_AbortResult ==
    \A t \in Tasks :
        (task[t].kind = "abort" /\ task[t].pc = "done" /\ task[t].result \in AbortTokens) =>
            /\ \A i \in 1..(Len(task[t].answers) - 1) : task[t].answers[i] # "DONE"
            /\ task[t].result = LastSignificant(task[t].answers)

-----------------------------------------------------------------------------
(* Termination and rollback *)

\* the bound keys that are replica uids of model_uid, its rank 0 uid included
BindingsOf(binds, model_uid) ==
    {k \in DictKeys(binds) :
        Len(k) = Len(model_uid) + 1 /\ SubSeq(k, 1, Len(model_uid)) = model_uid}

\* nothing of model_uid is left in the replica registry
Gone(model_uid) ==
    /\ model_uid \notin DOMAIN model_uid_to_replica_info
    /\ BindingsOf(replica_model_uid_to_worker, model_uid) = {}

\* C2: when terminate_model(uid) has returned without raising, with either value
\* of suppress_exception, uid has no ReplicaInfo, no replica uid of uid (uid-rank0
\* included) is bound, and uid has no CollectiveManager and no BlockTracker entry.
C2_TerminatePostcondition ==
    \A t \in Tasks :
        (task[t].kind = "terminate" /\ task[t].pc = "done" /\ task[t].result = "ok") =>
            /\ Gone(task[t].model_uid)
            /\ task[t].model_uid \notin collective_manager_mapping
            /\ task[t].model_uid \notin block_tracker_mapping

\* the errors that are raised by an RPC to a worker
WorkerRpcErrors ==
    {"get_model_count", "launch_rank0_model", "launch_builtin_model", "wait_for_load",
     "start_transfer_for_vllm"}

\* C3: a launch (replicated or sharded) in which a worker RPC raised ends with no
\* ReplicaInfo for the uid, no binding of a replica of the uid, the status ERROR
\* published, and the error of the worker raised to the caller.
C3_LaunchRollback ==
    \A t \in Tasks :
        (task[t].kind \in {"launch", "sharded"} /\ task[t].pc = "done"
         /\ task[t].error \in WorkerRpcErrors) =>
            /\ Gone(task[t].model_uid)
            /\ instance_info[task[t].model_uid] = "ERROR"
            /\ task[t].result = task[t].error

\* C4: when a launch has failed, every worker whose launch_builtin_model for a
\* replica or a shard of the uid had returned has been sent terminate_model for
\* that replica uid (sharded launch, n_worker=2: shard 0 on A returned, shard 1
\* on B raised, then A is sent terminate_model).
C4_RollbackReachesLaunched ==
    \A t \in Tasks :
        (task[t].kind \in {"launch", "sharded"} /\ task[t].pc = "done"
         /\ task[t].error # "none") =>
            \A p \in task[t].launched :
                p[2] # rank0_uid(task[t].model_uid) => p \in task[t].terminated

\* C9: a terminate_model(uid, suppress_exception=true) that directly follows a
\* normal return of terminate_model(uid, suppress_exception=true) returns
\* normally too.
C9_TerminateTwice ==
    \A t \in Tasks :
        (task[t].kind = "terminate" /\ task[t].pc = "done" /\ task[t].second) =>
            task[t].result = "ok"

-----------------------------------------------------------------------------
(* Duplicate launches *)

\* the step of coroutine t runs the checks before the insert of the ReplicaInfo
Validates(t) ==
    \/ task[t].pc = "begin" /\ task[t].kind = "sharded"
    \/ task[t].pc = "begin" /\ task[t].kind = "launch"
         /\ ~(task[t].enable_xavier /\ task[t].replica > 1)
    \/ task[t].pc = "create_collective_manager"

\* C5: a launch that reaches its checks while its model uid has a ReplicaInfo
\* fails there with the validation error, and the step leaves every ReplicaInfo
\* (replica count, cursor, worker refs) and every binding as they were.
C5_DuplicateRejected ==
    [][\A t \in Tasks :
          (Validates(t) /\ task'[t] # task[t]
           /\ task[t].model_uid \in DOMAIN model_uid_to_replica_info) =>
              /\ task'[t].pc = "done" /\ task'[t].result = "ValueError"
              /\ model_uid_to_replica_info' = model_uid_to_replica_info
              /\ replica_model_uid_to_worker' = replica_model_uid_to_worker]_vars

\* a replicated launch was rejected for a uid whose model is installed with all
\* its replicas bound
C5_Witness ==
    \E t \in Tasks :
        /\ task[t].kind = "launch" /\ task[t].pc = "done"
        /\ task[t].result = "ValueError" /\ task[t].error = "none"
        /\ task[t].model_uid \in DOMAIN model_uid_to_replica_info
        /\ model_uid_to_replica_info[task[t].model_uid].replica_to_worker_refs # <<>>
        /\ AllBound(replica_model_uid_to_worker, task[t].model_uid,
                    model_uid_to_replica_info[task[t].model_uid].replica)

-----------------------------------------------------------------------------
(* The health monitor and the removal of workers *)

\* the step is a sweep of the health monitor
SweepStep == last_call'.op = "_check_dead_nodes"

\* the addresses with a status after the step
StatusAddressesAfter == {worker_status'[i].k : i \in 1..Len(worker_status')}

\* the worker at address is referenced by a binding or by a slot of a ReplicaInfo
Referenced(binds, infos, address) ==
    \/ \E i \in 1..Len(binds) : SeqHas(binds[i].v.refs, address)
    \/ \E u \in DOMAIN infos :
          \E j \in 1..Len(infos[u].replica_to_worker_refs) :
              SeqHas(infos[u].replica_to_worker_refs[j].v, address)

\* C6: a sweep evicts a worker exactly when it finds its status stale for the
\* T-th consecutive time; a worker it finds fresh keeps its status with the
\* countdown T, one it finds stale for the n-th consecutive time, n < T, keeps
\* its status with the countdown T - n.
C6_EvictAtThreshold ==
    [][SweepStep =>
         \A i \in 1..Len(worker_status) :
             LET s == worker_status[i]
                 T == XINFERENCE_HEALTH_CHECK_FAILURE_THRESHOLD
             IN  IF IsStale(s) /\ s.stale_run + 1 >= T
                 THEN /\ s.k \notin StatusAddressesAfter
                      /\ ~SeqHas(worker_address_to_worker', s.k)
                 ELSE \E j \in 1..Len(worker_status') :
                         /\ worker_status'[j].k = s.k
                         /\ worker_status'[j].failure_remaining_count =
                              IF IsStale(s) THEN T - (s.stale_run + 1) ELSE T]_vars

\* C7: when a sweep has evicted worker W, no binding contains W and no ReplicaInfo
\* has W in a slot of its worker refs, also when a launch that had recorded W in
\* a slot was in progress.
C7_NoReferenceAfterEviction ==
    [][SweepStep =>
         \A w \in StatusAddresses \ StatusAddressesAfter :
             ~Referenced(replica_model_uid_to_worker', model_uid_to_replica_info', w)]_vars

\* the model a bound key belongs to
OwnerOf(key) == SubSeq(key, 1, Len(key) - 1)

\* C10: remove_worker(address) returns normally; afterwards the address is not
\* registered, no binding contains it, and the model of every binding that
\* contained it has no ReplicaInfo; a call for an address that is not registered
\* and that no binding contains leaves the worker registry and the replica
\* registry as they were.
C10_RemoveWorker ==
    [][last_call'.op = "remove_worker" =>
         LET address == last_call'.arg[1]
             hit == {i \in 1..Len(replica_model_uid_to_worker) :
                        SeqHas(replica_model_uid_to_worker[i].v.refs, address)}
         IN  /\ last_call'.result = "ok"
             /\ ~SeqHas(worker_address_to_worker', address)
             /\ \A i \in 1..Len(replica_model_uid_to_worker') :
                    ~SeqHas(replica_model_uid_to_worker'[i].v.refs, address)
             /\ \A i \in hit :
                    OwnerOf(replica_model_uid_to_worker[i].k)
                        \notin DOMAIN model_uid_to_replica_info'
             /\ (hit = {} /\ ~SeqHas(worker_address_to_worker, address)) =>
                    UNCHANGED <<worker_address_to_worker, replica_model_uid_to_worker,
                                model_uid_to_replica_info>>]_vars

-----------------------------------------------------------------------------
(* The consistency of the replica registry *)

\* every bound key parses to a model uid and a replica index such that the model
\* has a ReplicaInfo and the index is below its replica count
NoOrphanBinding(binds, infos) ==
    \A i \in 1..Len(binds) :
        LET p == parse_replica_model_uid(binds[i].k)
        IN  /\ p.ok
            /\ p.model_uid \in DOMAIN infos
            /\ p.rep_id < infos[p.model_uid].replica

\* C11: no binding is an orphan, and the removal or the eviction of a worker
\* keeps it so: when no binding is an orphan before a remove_worker or a sweep,
\* none is afterwards, also when the worker hosts only some of the replicas of a
\* model.
C11_NoOrphanAfterRemoval ==
    [][(last_call'.op \in {"remove_worker", "_check_dead_nodes"}
        /\ NoOrphanBinding(replica_model_uid_to_worker, model_uid_to_replica_info))
       => NoOrphanBinding(replica_model_uid_to_worker', model_uid_to_replica_info')]_vars

\* C12: for every model with a ReplicaInfo, also while its launch is in progress,
\* the replica count equals the number of slots of its worker refs.
C12_SlotsEqualReplica ==
    \A u \in DOMAIN model_uid_to_replica_info :
        model_uid_to_replica_info[u].replica =
            Len(model_uid_to_replica_info[u].replica_to_worker_refs)

-----------------------------------------------------------------------------
(* The frame of the round-robin cursor *)

\* C13: the cursor of an installed model moves only in a get_model call that is
\* served: a get_model that fails, describe_model, the progress query and
\* abort_request leave it where it was.
C13_CursorMovesOnlyWhenServed ==
    [][\A u \in ModelUids :
          (/\ u \in DOMAIN model_uid_to_replica_info
           /\ u \in DOMAIN model_uid_to_replica_info'
           /\ model_uid_to_replica_info'[u].scheduler
                # model_uid_to_replica_info[u].scheduler) =>
              (last_call'.op = "get_model" /\ last_call'.result = "ok")]_vars

-----------------------------------------------------------------------------
(* The order of a launch *)

\* the <<worker, replica uid>> pairs of pairs that are about replica_model_uid
PairsOf(pairs, replica_model_uid) == {p \in pairs : p[2] = replica_model_uid}

\* C14: a launch returns normally only when, for every replica, the launch on
\* its worker (on each of its shard workers) has returned and wait_for_load has
\* returned on the same workers; wait_for_load returns only for a worker whose
\* launch had returned, and it is awaited only with the launch returned and the
\* replica bound to the worker.
C14_ReturnsAfterLoad ==
    \A t \in Tasks :
        LET tk == task[t]
            key == build_replica_model_uid(tk.model_uid, tk.idx)
        IN  tk.kind \in {"launch", "sharded"} =>
              /\ tk.loaded \subseteq tk.launched
              /\ (tk.pc = "done" /\ tk.result = "ok") =>
                    \A i \in 0..(tk.replica - 1) :
                        LET k == build_replica_model_uid(tk.model_uid, i)
                        IN  /\ PairsOf(tk.launched, k) # {}
                            /\ PairsOf(tk.launched, k) \subseteq tk.loaded
              /\ tk.pc = "wait_for_load" =>
                    /\ <<tk.worker_ref, key>> \in tk.launched
                    /\ DictHas(replica_model_uid_to_worker, key)
                    /\ SeqHas(DictGet(replica_model_uid_to_worker, key).refs, tk.worker_ref)
              /\ tk.pc = "shard_wait_for_load" =>
                    /\ <<tk.worker_refs[tk.i_worker + 1], key>> \in tk.launched
                    /\ DictHas(replica_model_uid_to_worker, key)
                    /\ DictGet(replica_model_uid_to_worker, key).refs = tk.worker_refs

\* a sharded launch of two replicas on two workers each has returned normally
C14_Witness ==
    \E t \in Tasks :
        /\ task[t].kind = "sharded" /\ task[t].pc = "done" /\ task[t].result = "ok"
        /\ task[t].replica = 2 /\ task[t].n_worker = 2
        /\ Cardinality(task[t].loaded) = 4

\* the replica uid of the rank: uid-rank0 for rank 0, replica rank-1 above
UidOfRank(model_uid, rank) ==
    IF rank = 0 THEN rank0_uid(model_uid) ELSE build_replica_model_uid(model_uid, rank - 1)

\* C15: in a collective launch of N >= 2 replicas the j-th worker launch is the
\* one of rank j-1 (uid-rank0 first, then replica i with rank i+1) and carries
\* world_size N+1; register_rank is called only after all N+1 launches have
\* returned, once per rank in the order 0,1,...,N, each with the address that the
\* launch of that rank returned; the launch returns normally only after all N+1
\* calls.
C15_CollectiveOrder ==
    \A t \in Tasks :
        LET tk == task[t]
        IN  (tk.kind = "launch" /\ tk.enable_xavier) =>
              /\ \A j \in 1..Len(tk.launch_calls) :
                    /\ tk.launch_calls[j].rank = j - 1
                    /\ tk.launch_calls[j].uid = UidOfRank(tk.model_uid, j - 1)
                    /\ tk.launch_calls[j].world_size = tk.replica + 1
              /\ Len(tk.rank_addresses) <= Len(tk.launch_calls)
              /\ \A j \in 1..Len(tk.rank_addresses) :
                    /\ tk.rank_addresses[j][2] = tk.launch_calls[j].uid
                    /\ tk.rank_addresses[j] \in tk.launched
              /\ tk.registered # <<>> => Len(tk.rank_addresses) = tk.replica + 1
              /\ \A j \in 1..Len(tk.registered) :
                    tk.registered[j] = [idx |-> j - 1, addr |-> tk.rank_addresses[j]]
              /\ (tk.pc = "done" /\ tk.result = "ok") =>
                    Len(tk.registered) = tk.replica + 1

\* a collective launch of 2 replicas has returned normally after 3 register_rank calls
C15_Witness ==
    \E t \in Tasks :
        /\ task[t].kind = "launch" /\ task[t].enable_xavier
        /\ task[t].pc = "done" /\ task[t].result = "ok"
        /\ task[t].replica = 2 /\ Len(task[t].registered) = 3

\* the workers _choose_worker looks at: every registered worker for an empty
\* whitelist, the registered workers of the whitelist otherwise
Candidates(registry, available_workers) ==
    {registry[i] : i \in {j \in 1..Len(registry) :
                             available_workers = <<>> \/ SeqHas(available_workers, registry[j])}}

IndexOf(seq, x) == CHOOSE i \in 1..Len(seq) : seq[i] = x

\* C16: _choose_worker returns a candidate worker with the least model count, the
\* first such worker in the order of the registry on a tie; the candidates are all
\* the registered workers when the whitelist is empty and the registered workers
\* of the whitelist otherwise; it raises when there is no candidate.
C16_PlacementSelector ==
    [][\A t \in Tasks :
         (task[t].kind = "idle" /\ task'[t].kind = "_choose_worker") =>
            LET tk == task'[t]
                registry == worker_address_to_worker
                cands == Candidates(registry, tk.available_workers)
            IN  /\ tk.pc = "done"
                /\ cands = {} => tk.result = "RuntimeError"
                /\ cands # {} =>
                     /\ tk.result \in cands
                     /\ \A w \in cands :
                          /\ tk.counts[tk.result] <= tk.counts[w]
                          /\ tk.counts[w] = tk.counts[tk.result] =>
                               IndexOf(registry, tk.result) <= IndexOf(registry, w)]_vars

\* the selector has just chosen w2, registered before w1, on a tie of the counts
C16_Witness ==
    /\ last_call.op = "_choose_worker" /\ last_call.result = "w2"
    /\ worker_address_to_worker = <<"w2", "w1">>
    /\ \E t \in Tasks :
         /\ task[t].kind = "_choose_worker" /\ task[t].result = "w2"
         /\ task[t].available_workers = <<>>
         /\ task[t].counts["w1"] = task[t].counts["w2"]

\* C17: report_worker_status is an upsert that resets the countdown: right after
\* the call the address has a status whose update time is now and whose
\* failure_remaining_count is the threshold, for a known address as well.
C17_ReportResetsCountdown ==
    [][last_call'.op = "report_worker_status" =>
         \E i \in 1..Len(worker_status') :
            /\ worker_status'[i].k = last_call'.arg[1]
            /\ worker_status'[i].age = 0
            /\ worker_status'[i].failure_remaining_count =
                  XINFERENCE_HEALTH_CHECK_FAILURE_THRESHOLD]_vars

\* C18: the health monitor never stops: after a sweep in which an exception was
\* raised the monitor is still running.
C18_MonitorSurvivesException ==
    [][(SweepStep /\ last_call'.result # "ok") => monitor_alive']_vars

\* C19: add_worker for an address that is in the registry fails and leaves the
\* registry unchanged; for a new address it goes on to the lookup of the handle
\* and, when that returns, adds exactly that address and changes nothing else;
\* the registry changes at no other step of an add_worker call.
C19_AddWorker ==
    [][\A t \in Tasks :
         LET worker_address == task'[t].worker_ref
         IN  /\ (task[t].kind = "idle" /\ task'[t].kind = "add_worker") =>
                  /\ worker_address_to_worker' = worker_address_to_worker
                  /\ IF SeqHas(worker_address_to_worker, worker_address)
                     THEN task'[t].pc = "done" /\ task'[t].result = "AssertionError"
                     ELSE task'[t].pc = "actor_ref"
             /\ (task[t].pc = "actor_ref" /\ task'[t].pc = "done") =>
                  /\ UNCHANGED <<worker_status, replica_model_uid_to_worker,
                                 model_uid_to_replica_info, block_tracker_mapping,
                                 collective_manager_mapping, instance_info>>
                  /\ IF task'[t].result = "ok"
                     THEN /\ SeqHas(worker_address_to_worker', worker_address)
                          /\ SeqRemove(worker_address_to_worker', worker_address)
                               = SeqRemove(worker_address_to_worker, worker_address)
                          /\ Len(worker_address_to_worker') <=
                               Len(worker_address_to_worker) + 1
                     ELSE worker_address_to_worker' = worker_address_to_worker
             /\ (task[t].kind = "add_worker" /\ task[t].pc = "done") =>
                  (task'[t] # task[t] =>
                     worker_address_to_worker' = worker_address_to_worker)]_vars

\* add_worker('w1') has failed on the registered w1 while add_worker('w2') has
\* added the new w2 behind it
C19_Witness ==
    /\ worker_address_to_worker = <<"w1", "w2">>
    /\ \E t, u \in Tasks :
         /\ task[t].kind = "add_worker" /\ task[t].worker_ref = "w1"
         /\ task[t].pc = "done" /\ task[t].result = "AssertionError"
         /\ task[u].kind = "add_worker" /\ task[u].worker_ref = "w2"
         /\ task[u].pc = "done" /\ task[u].result = "ok"

\* C20: a sharded launch with n_worker greater than the number of candidate
\* workers fails before any worker is called and leaves no trace: when it has
\* failed there is no ReplicaInfo of the uid and the InstanceInfo is not CREATING.
C20_NWorkerCheckLeavesNoTrace ==
    [][\A t \in Tasks :
         (/\ task[t].kind = "sharded" /\ task[t].pc # "done"
          /\ task[t].n_worker > Len(task[t].available_workers)
          /\ task'[t].pc = "done") =>
            /\ task'[t].result # "ok"
            /\ task'[t].launched = {}
            /\ task[t].model_uid \notin DOMAIN model_uid_to_replica_info'
            /\ instance_info'[task[t].model_uid] # "CREATING"]_vars

-----------------------------------------------------------------------------
(* Detached launches *)

\* C21: a launch with wait_ready false returns the model uid before any worker
\* launch RPC, with the ReplicaInfo installed and status CREATING published; the
\* uid is a key of ASYNC_LAUNCH_TASKS while the detached task runs, and the
\* completion of the task removes its entry.
C21_DetachedLaunch ==
    [][\A t \in Tasks :
         LET model_uid == task'[t].model_uid
         IN  /\ (task[t].pc = "set_instance_info" /\ task'[t].pc = "created") =>
                  /\ last_call' = Call("launch", model_uid, "ok")
                  /\ task'[t].launched = {}
                  /\ model_uid \in DOMAIN model_uid_to_replica_info'
                  /\ instance_info'[model_uid] = "CREATING"
             /\ (task'[t].detached /\ task'[t].pc # "done") =>
                  model_uid \in DOMAIN ASYNC_LAUNCH_TASKS'
             /\ (task[t].detached /\ task[t].pc = "done" /\ task'[t].kind = "idle") =>
                  \A u \in DOMAIN ASYNC_LAUNCH_TASKS' : ASYNC_LAUNCH_TASKS'[u] # t]_vars

\* C22: a failure to destroy the CollectiveManager or the BlockTracker actor does
\* not block termination: a terminate_model in which a destroy_actor raised goes
\* on to the end, returns normally to its caller, and leaves neither of the two
\* entries of the uid nor its ReplicaInfo.
C22_DestroyFailureSwallowed ==
    \A t \in Tasks :
        LET tk == task[t]
        IN  tk.destroy_errors # {} =>
              /\ tk.pc \in {"destroy_block_tracker", "update_instance_info", "done"}
              /\ tk.model_uid \notin DOMAIN model_uid_to_replica_info
              /\ tk.model_uid \notin collective_manager_mapping
              /\ tk.model_uid \notin block_tracker_mapping
              /\ (tk.kind = "terminate" /\ tk.pc = "done") => tk.result = "ok"

\* terminate_model has returned after both destroy_actor calls raised
C22_Witness ==
    \E t \in Tasks :
        /\ task[t].kind = "terminate" /\ task[t].pc = "done" /\ task[t].result = "ok"
        /\ task[t].destroy_errors = {"collective_manager", "block_tracker"}

\* C23: two concurrent launches never claim the same uid: a launch with a model
\* uid that reaches its checks while the uid has a ReplicaInfo fails as a
\* duplicate and leaves the ReplicaInfo as it was, and a launch without a model
\* uid (a collective one included, which is suspended between _gen_model_uid and
\* the insert) passes its checks and installs a ReplicaInfo under a uid that no
\* other launch without a model uid holds.
C23_ConcurrentLaunches ==
    [][\A t \in Tasks :
         (Validates(t) /\ task[t].kind = "launch" /\ task'[t] # task[t]) =>
            IF task[t].model_name = <<>>
            THEN task[t].model_uid \in DOMAIN model_uid_to_replica_info =>
                   /\ task'[t].pc = "done" /\ task'[t].result = "ValueError"
                   /\ model_uid_to_replica_info' = model_uid_to_replica_info
            ELSE /\ task'[t].pc = "set_instance_info"
                 /\ task'[t].model_uid \notin DOMAIN model_uid_to_replica_info
                 /\ task'[t].model_uid \in DOMAIN model_uid_to_replica_info'
                 /\ \A u \in Tasks \ {t} :
                      (task[u].kind = "launch" /\ task[u].model_name # <<>>) =>
                         task[u].model_uid # task'[t].model_uid]_vars

-----------------------------------------------------------------------------
(* The thread of the health monitor *)

\* C24: the state changes of the health monitor are serialized with the other
\* operations of the supervisor: no sweep takes effect inside a section of a call
\* that has no suspension point, so a report_worker_status that found the record
\* of its address in its membership test still finds it in its branch, refreshes
\* it and returns.
C24_SweepSerialized ==
    [][\A t \in Tasks :
         (task[t].pc = "report_known" /\ task'[t].pc = "done") =>
            /\ task'[t].result = "ok"
            /\ DictHas(worker_status', task[t].worker_ref)]_vars

-----------------------------------------------------------------------------
(* The frame of a removal *)

\* the workers that the step removes: the address of a remove_worker call, the
\* workers whose countdown a sweep takes to zero
Leaving ==
    IF last_call'.op = "remove_worker" THEN {last_call'.arg[1]}
    ELSE {worker_status[i].k : i \in {j \in 1..Len(worker_status) :
                                          FailureRemainingAfterSweep(worker_status[j]) <= 0}}

\* model_uid has a replica (uid-rank0 included) bound to a worker of ws
BoundTo(binds, model_uid, ws) ==
    \E i \in 1..Len(binds) :
        /\ OwnerOf(binds[i].k) = model_uid
        /\ \E j \in 1..Len(binds[i].v.refs) : binds[i].v.refs[j] \in ws

C26_WorkerRecordRemovedWhole ==
    [][/\ (last_call'.op = "remove_worker" /\ last_call'.result = "ok") =>
            /\ ~SeqHas(worker_address_to_worker', last_call'.arg[1])
            /\ last_call'.arg[1] \notin StatusAddressesAfter
       /\ SweepStep =>
            \A a \in StatusAddresses \ StatusAddressesAfter :
                ~SeqHas(worker_address_to_worker', a)]_vars

-----------------------------------------------------------------------------
(* Errors of the routed calls *)

\* C27: in abort_request an error of one replica does not end the walk: the call
\* ends only with a token as its result, after an answer DONE or after the last
\* bound replica has been asked.
C27_AbortErrorContinues ==
    [][\A t \in Tasks :
         (task[t].pc = "abort_request" /\ task'[t].pc = "done") =>
            /\ task'[t].result \in AbortTokens
            /\ \/ task'[t].result = "DONE"
               \/ \A r \in (task[t].idx + 1)..(task[t].replica - 1) :
                     ~DictHas(replica_model_uid_to_worker,
                              build_replica_model_uid(task[t].model_uid, r))]_vars

-----------------------------------------------------------------------------
(* Sharded replicas *)

\* the launch_builtin_model calls of a sharded launch for one replica uid
ShardCallsOf(tk, key) == SelectSeq(tk.shard_calls, LAMBDA c : c.uid = key)

\* the worker that was asked to launch shard 0 of the replica
DriverOf(tk, key) == ShardCallsOf(tk, key)[1].worker

\* the launch in slot 1 is the sharded launch that bound the replica uid
LaunchedSharded(key) ==
    /\ task[1].kind = "sharded"
    /\ DictHas(replica_model_uid_to_worker, key)
    /\ ShardCallsOf(task[1], key) # <<>>

\* C28: the worker list bound to a sharded replica is non-empty and in shard
\* order, element 0 being the worker that launched shard 0, and get_model,
\* describe_model and abort_request address that worker.
C28_ShardedRoutesToDriver ==
    [][/\ \A n \in 0..(MaxReplica - 1), u \in ModelUids :
            LET key == build_replica_model_uid(u, n)
                calls == ShardCallsOf(task'[1], key)
            IN  (/\ DictHas(replica_model_uid_to_worker', key)
                 /\ ~DictHas(replica_model_uid_to_worker, key)
                 /\ task'[1].kind = "sharded") =>
                   LET v == DictGet(replica_model_uid_to_worker', key)
                   IN  /\ v.is_list /\ Len(v.refs) >= 1
                       /\ Len(v.refs) = Len(calls)
                       /\ \A j \in 1..Len(calls) :
                             calls[j].shard = j - 1 /\ v.refs[j] = calls[j].worker
       /\ (/\ last_call' # last_call
           /\ last_call'.op \in {"get_model", "describe_model"}
           /\ last_call'.result = "ok"
           /\ LaunchedSharded(Tail(last_call'.arg))) =>
             Head(last_call'.arg) = DriverOf(task[1], Tail(last_call'.arg))
       /\ (/\ task'[2].pc = "abort_request" /\ task'[2] # task[2]
           /\ LaunchedSharded(build_replica_model_uid(task'[2].model_uid,
                                                      task'[2].idx))) =>
             task'[2].worker_ref =
               DriverOf(task[1], build_replica_model_uid(task'[2].model_uid,
                                                         task'[2].idx))]_vars

\* abort_request is routed to the second replica of a sharded model whose shards
\* are on different workers, after get_model was
C28_Witness ==
    /\ task[2].pc = "abort_request" /\ task[2].idx = 1
    /\ LaunchedSharded(build_replica_model_uid(task[2].model_uid, 1))
    /\ LET v == DictGet(replica_model_uid_to_worker,
                        build_replica_model_uid(task[2].model_uid, 1))
       IN  Len(v.refs) = 2 /\ v.refs[1] # v.refs[2]
    /\ last_call.op = "get_model" /\ last_call.result = "ok"

-----------------------------------------------------------------------------
(* The transfer component of a collective launch *)

\* C29: in a collective launch the start_transfer_for_vllm calls are made only
\* after the launches of all ranks have returned, all in one step, one per rank,
\* each with the full ordered list of rank addresses, and no register_rank call
\* is made before all of them have returned.
C29_TransferAfterLaunches ==
    [][\A t \in Tasks :
         LET tk == task'[t]
         IN  (tk.kind = "launch" /\ tk.enable_xavier) =>
               /\ tk.transfer_calls # task[t].transfer_calls =>
                     /\ task[t].transfer_calls = <<>>
                     /\ Len(tk.transfer_calls) = tk.replica + 1
               /\ tk.transfer_calls # <<>> =>
                     /\ Len(tk.launch_calls) = tk.replica + 1
                     /\ Len(tk.rank_addresses) = tk.replica + 1
                     /\ \A j \in 1..(tk.replica + 1) :
                           /\ tk.rank_addresses[j] \in tk.launched
                           /\ j > 1 => tk.rank_addresses[j] \in tk.loaded
                           /\ tk.rank_addresses[j][2] = UidOfRank(tk.model_uid, j - 1)
                           /\ tk.transfer_calls[j].uid = UidOfRank(tk.model_uid, j - 1)
                           /\ tk.transfer_calls[j].worker = tk.rank_addresses[j][1]
                           /\ tk.transfer_calls[j].rank_addresses = tk.rank_addresses
               /\ tk.registered # <<>> => tk.transfers_returned]_vars

\* the transfer calls of a collective launch of 2 replicas have returned and the
\* first rank is being registered
C29_Witness ==
    \E t \in Tasks :
       /\ task[t].kind = "launch" /\ task[t].enable_xavier /\ task[t].replica = 2
       /\ task[t].pc = "register_rank"
       /\ Len(task[t].transfer_calls) = 3 /\ task[t].transfers_returned

-----------------------------------------------------------------------------
(* Cancelling a launch *)

\* C30: cancel_launch on a known uid sends cancel_launch_model(replica uid) to
\* every worker recorded in a worker_refs slot of the uid and, whatever the workers
\* answer, ends normally with the ReplicaInfo of the uid removed; on an unknown uid
\* it raises and changes nothing.
C30_CancelLaunch ==
    [][\A t \in Tasks :
         LET uid == task'[t].model_uid
         IN  /\ (task[t].kind = "idle" /\ task'[t].kind = "cancel") =>
                  IF uid \notin DOMAIN model_uid_to_replica_info
                  THEN /\ task'[t].pc = "done" /\ task'[t].result = "RuntimeError"
                       /\ UNCHANGED <<replica_model_uid_to_worker,
                                      model_uid_to_replica_info, instance_info,
                                      worker_address_to_worker, worker_status>>
                  ELSE \A i \in 0..(model_uid_to_replica_info[uid].replica - 1) :
                         \A j \in 1..Len(RefsOf(model_uid_to_replica_info[uid], i)) :
                            <<RefsOf(model_uid_to_replica_info[uid], i)[j],
                              build_replica_model_uid(uid, i)>> \in task'[t].cancel_calls
             /\ (task[t].pc = "cancel_launch_model" /\ task'[t].pc = "done") =>
                  /\ task'[t].result = "ok"
                  /\ uid \notin DOMAIN model_uid_to_replica_info']_vars

-----------------------------------------------------------------------------
(* Register before RPC *)

\* the positions at which a worker launch call is outstanding
LaunchRpcPcs == {"launch_builtin_model", "launch_rank0_model", "shard_launch_builtin_model"}

\* C31: whenever launch_builtin_model or launch_rank0_model is invoked on worker W
\* for replica index i of a uid, W is in replica_to_worker_refs[i] of the
\* ReplicaInfo of the uid, in the replicated and in the sharded protocol.
C31_RegisterBeforeRpc ==
    [][\A t \in Tasks :
         (task'[t].pc \in LaunchRpcPcs /\ task'[t].pc # task[t].pc) =>
            /\ task'[t].model_uid \in DOMAIN model_uid_to_replica_info'
            /\ SeqHas(RefsOf(model_uid_to_replica_info'[task'[t].model_uid], task'[t].idx),
                      task'[t].worker_ref)]_vars

\* the second shard of the second replica of a sharded launch is being launched
C31_Witness ==
    \E t \in Tasks :
       /\ task[t].pc = "shard_launch_builtin_model"
       /\ task[t].idx = 1 /\ task[t].i_worker = 1
       /\ SeqHas(RefsOf(model_uid_to_replica_info[task[t].model_uid], 1),
                 task[t].worker_ref)

-----------------------------------------------------------------------------
(* Rejected launches *)

\* C32: a launch that validation rejects because its uid has a ReplicaInfo leaves
\* the ReplicaInfo map, the bindings, the BlockTracker map and the
\* CollectiveManager map as they were, in every step from its arrival to the
\* rejection, also when it asks for the collective actors with replica >= 2.
C32_RejectedLaunchFrame ==
    [][\A t \in Tasks :
         (/\ task[t].kind = "launch"
          /\ task[t].pc \in {"begin", "create_block_tracker", "create_collective_manager"}
          /\ task[t].model_uid \in DOMAIN model_uid_to_replica_info
          /\ task'[t] # task[t]) =>
            /\ model_uid_to_replica_info' = model_uid_to_replica_info
            /\ replica_model_uid_to_worker' = replica_model_uid_to_worker
            /\ block_tracker_mapping' = block_tracker_mapping
            /\ collective_manager_mapping' = collective_manager_mapping]_vars

-----------------------------------------------------------------------------
(* Errors of a detached launch *)

\* C33: when the task of a detached launch has failed, the status of its uid is
\* ERROR, also when the ReplicaInfo of the uid was removed while the launch was
\* in flight.
C33_DetachedErrorStatus ==
    \A t \in Tasks :
       (task[t].detached /\ task[t].pc = "done" /\ task[t].result # "ok") =>
          instance_info[task[t].model_uid] = "ERROR"

-----------------------------------------------------------------------------
(* Pinned placement *)

\* C34: in a replicated launch that arrived at a cluster of two workers and whose
\* caller pinned worker_ip to one of them, every replica is launched on the pinned
\* worker, whatever registrations the workers advertise; without a pin every
\* replica is launched on an advertising worker when there is one.
C34_PinWins ==
    [][\A t \in Tasks :
         (/\ task'[t].kind = "launch"
          /\ task'[t].pc = "launch_builtin_model" /\ task[t].pc # "launch_builtin_model"
          /\ Len(task'[t].workers) = 2) =>
            /\ SeqHas(task'[t].workers, task'[t].pin) =>
                  task'[t].worker_ref = task'[t].pin
            /\ (task'[t].pin = NoWorker /\ task'[t].registrations # {}) =>
                  task'[t].worker_ref \in task'[t].registrations]_vars

-----------------------------------------------------------------------------
(* Shard placement *)

\* C35: the shards of one replica of a sharded launch are bound to pairwise
\* distinct workers, whatever model counts the workers report.
C35_ShardsOnDistinctWorkers ==
    \A i \in 1..Len(replica_model_uid_to_worker) :
       LET v == replica_model_uid_to_worker[i].v
       IN  v.is_list =>
             \A j, k \in 1..Len(v.refs) : j # k => v.refs[j] # v.refs[k]

-----------------------------------------------------------------------------
(* Ownership of the collective actors *)

\* a call about the uid has not returned
InFlight(tasks, u) ==
    \E t \in Tasks : tasks[t].model_uid = u /\ tasks[t].pc \notin {"idle", "done"}

\* C36: the keys of the BlockTracker map and of the CollectiveManager map do not
\* outlive the model: when the ReplicaInfo of a collective model with all its
\* replicas bound is deleted while no launch or termination of the uid is in
\* flight (a health eviction, remove_worker, cancel_launch), no entry of the uid
\* remains in either map.
C36_AuxiliaryOwned ==
    [][\A u \in ModelUids :
         (/\ u \in DOMAIN model_uid_to_replica_info
          /\ u \notin DOMAIN model_uid_to_replica_info'
          /\ u \in block_tracker_mapping \cap collective_manager_mapping
          /\ DictHas(replica_model_uid_to_worker, rank0_uid(u))
          /\ AllBound(replica_model_uid_to_worker, u,
                      model_uid_to_replica_info[u].replica)
          /\ model_uid_to_replica_info[u].replica >= 2
          /\ ~InFlight(task', u)) =>
            u \notin block_tracker_mapping' \cup collective_manager_mapping']_vars

-----------------------------------------------------------------------------
(* Eviction of silent workers *)

\* C37: a registered worker that sends no status report is eventually evicted:
\* from every state in which the worker is in the address->handle map, a state
\* follows in which it is no longer there or in which it has just reported.
C37_SilentWorkerEvicted ==
    \A w \in Workers :
       SeqHas(worker_address_to_worker, w) ~>
          (\/ ~SeqHas(worker_address_to_worker, w)
           \/ last_call = Call("report_worker_status", <<w>>, "ok"))

-----------------------------------------------------------------------------
(* Retrying a termination *)

\* C38: a terminate_model(uid, suppress_exception=false) that follows one which
\* raised because a worker's terminate_model RPC failed, and in which no worker
\* RPC fails, returns normally and removes the model.
C38_TerminateRetry ==
    \A t \in Tasks :
       (/\ task[t].kind = "terminate" /\ task[t].retry
        /\ task[t].pc = "done" /\ task[t].result # "terminate_model") =>
          /\ task[t].result = "ok"
          /\ task[t].model_uid \notin DOMAIN model_uid_to_replica_info

-----------------------------------------------------------------------------
(* Bindings after a cancelled launch *)

\* C39: when a launch whose ReplicaInfo was removed by cancel_launch has finished
\* (its rollback found no ReplicaInfo) and cancel_launch has returned, no
\* replica->worker binding of a replica of the uid remains.
C39_NoBindingAfterCancel ==
    [][\A t \in Tasks :
         (/\ task[t].kind = "launch"
          /\ task[t].pc \notin {"done", "update_instance_info"}
          /\ task'[t].pc = "done" /\ task'[t].error # "none"
          /\ ~InFlight(task', task'[t].model_uid)) =>
            \A r \in 0..(MaxReplica - 1) :
               ~DictHas(replica_model_uid_to_worker',
                        build_replica_model_uid(task'[t].model_uid, r))]_vars

-----------------------------------------------------------------------------
(* list_models *)

\* C40: list_models succeeds whenever its worker calls succeed, no launch is in
\* flight and no launch has failed: every replica uid that a registered worker
\* reports belongs to a model uid with a ReplicaInfo, from which the replica
\* count is read, also after a worker that hosted another replica was removed.
C40_ListModelsSucceeds ==
    \A t \in Tasks :
       (/\ task[t].kind = "list_models" /\ task[t].pc = "done"
        /\ task[t].result # "list_models"
        /\ \A t2 \in Tasks : task[t2].kind # "launch"
        /\ \A u \in ModelUids : instance_info[u] # "ERROR") =>
          task[t].result = "ok"

====
